---- MODULE Spec2Model ----
(***************************************************************************)
(* A model of the runtime shim (RuntimeBridge, src/src/runtime-bridge.ts)  *)
(* and of the in-memory data store behind it (InMemoryStore, whose source  *)
(* is carried in src/src/__tests__/in-memory-store.test.ts, lines 745 to   *)
(* 1511).                                                                  *)
(*                                                                         *)
(* The shim's state falls into independent parts (settings, the service    *)
(* registry, the event table, state composition, the store).  Every part   *)
(* has its own next-state relation and its own specification over the one  *)
(* set of variables; a specification leaves the other parts' variables at  *)
(* their constructed values.                                               *)
(*                                                                         *)
(* Values of mixed JavaScript type (string | boolean | null) are encoded   *)
(* as pairs <<type, text>> so that "false" the string and false the        *)
(* boolean are different values that can be compared.                      *)
(***************************************************************************)
EXTENDS Integers, Sequences, FiniteSets, TLC

VARIABLES
    \* ---- settings (runtime-bridge.ts 38, 45, 49) ----
    settings,       \* this.settings: key -> value (own keys only)
    secrets,        \* this.character.settings.secrets: key -> value
    env,            \* process.env: key -> string
    settingsCall,   \* the last settings call: its operation, arguments and return value
    lastSet,        \* per key, the argument of the last setSetting (NONE: never set)
    \* ---- memories of the store (in-memory-store.test.ts 779, 780) ----
    memories,       \* this.memories: table name -> list of memories, in insertion order
    memoriesById,   \* this.memoriesById: id -> memory
    uuids,          \* the number of ids randomUUID() has handed out to the store
    createLog,      \* history: <<table, id>> of every createMemory call, in call order
    logs,           \* this.logs: the log entries, in append order
    \* ---- service registry (runtime-bridge.ts 29, 42) ----
    services,       \* this.services: type -> list of instances
    serviceLoadPromises, \* this.serviceLoadPromises: type -> the pending promise
    promiseVal,     \* every promise handed out: PENDING or the instance it resolved with
    starting,       \* registerService calls awaiting sc.start(this): <<type, instance>>
    loadCalls,      \* history: every getServiceLoadPromise call, its type, the promise
                    \* returned and whether the type had an instance
    \* ---- rows of the store (in-memory-store.test.ts 774-776, 781) ----
    worlds,         \* this.worlds: id -> world
    rooms,          \* this.rooms: id -> room
    entities,       \* this.entities: id -> entity
    participants,   \* this.participants: room id -> Set of entity ids, as the list
                    \* of its members in insertion order
    rowUuids,       \* the number of ids randomUUID() has handed out for rows
    ensureCalls,    \* the ensure* calls in flight, one per slot: what is left to do
                    \* and where the call is suspended
    rowStep,        \* which slot's call took the last step on the rows (0: a direct call)
    \* ---- event table (runtime-bridge.ts 30) ----
    events,         \* this.events: event name -> list of handlers, in registration order
    emitCalls,      \* the emitEvent calls in flight, one per slot: the names, the
                    \* position of the two loops, and what the call has done so far
    \* ---- state composition (runtime-bridge.ts 24, 33) ----
    providers,      \* this.providers: the registered providers, in registration order
    stateCache,     \* this.stateCache: message id -> State
    composeCalls,   \* the composeState calls, one per slot: arguments, the providers
                    \* selected and invoked so far, and the State returned
    returned,       \* history: message id -> the State the last completed
                    \* composeState for that id returned
    \* ---- other collections of the store (in-memory-store.test.ts 773-786) ----
    agents,         \* this.agents: id -> agent
    tasks,          \* this.tasks: id -> task
    components,     \* this.components: composite key -> component
    componentsByEntity, \* this.componentsByEntity: entity id -> list of components
    relationships,  \* this.relationships: the relationships, in creation order
    cache,          \* this.cache: key -> value
    participantState, \* this.participantState: <<roomId, entityId>> -> state
    \* ---- calls without effect on the state ----
    lastCall        \* the last query or other call that only returns: its name,
                    \* arguments and result

settingsVars == <<settings, secrets, env, settingsCall, lastSet>>
memoryVars == <<memories, memoriesById, uuids, createLog, logs>>

serviceVars == <<services, serviceLoadPromises, promiseVal, starting, loadCalls>>

rowVars == <<worlds, rooms, entities, participants, rowUuids, ensureCalls, rowStep>>

eventVars == <<events, emitCalls>>

composeVars == <<providers, stateCache, composeCalls, returned>>

recordVars == <<agents, tasks, components, componentsByEntity, relationships, cache,
                participantState>>

vars == <<settingsVars, memoryVars, serviceVars, rowVars, eventVars, composeVars,
         recordVars, lastCall>>

\* What an operation of one part leaves alone: the other parts.
notSettings == <<memoryVars, serviceVars, rowVars, eventVars, composeVars,
    recordVars, lastCall>>
notMemory == <<settingsVars, serviceVars, rowVars, eventVars, composeVars,
    recordVars, lastCall>>
notServices == <<settingsVars, memoryVars, rowVars, eventVars, composeVars,
    recordVars, lastCall>>
notRows == <<settingsVars, memoryVars, serviceVars, eventVars, composeVars,
    recordVars, lastCall>>
notEvents == <<settingsVars, memoryVars, serviceVars, rowVars, composeVars,
    recordVars, lastCall>>
notCompose == <<settingsVars, memoryVars, serviceVars, rowVars, eventVars,
    recordVars, lastCall>>
notCalls == <<settingsVars, memoryVars, serviceVars, rowVars, eventVars, composeVars,
    recordVars>>
notRecords == <<settingsVars, memoryVars, serviceVars, rowVars, eventVars, composeVars>>
NoCall == [op |-> "none"]

\* ------------------------------------------------------------------------
\* Values and maps
\* ------------------------------------------------------------------------

Str(s) == <<"string", s>>
Bool(b) == <<"boolean", IF b THEN "true" ELSE "false">>
NULLV == <<"null", "null">>
NONE == <<"none", "none">>

\* A JavaScript object or Map used as a map: a function on its present keys.
EmptyMap == [x \in {} |-> NONE]
MapSet(m, k, v) == [x \in (DOMAIN m) \cup {k} |-> IF x = k THEN v ELSE m[x]]
MapDelete(m, k) == [x \in (DOMAIN m) \ {k} |-> m[x]]
Has(m, k) == k \in DOMAIN m
Range(seq) == {seq[i] : i \in 1..Len(seq)}

\* The store's other collections as constructed: all empty.
InitRecords ==
    /\ agents = EmptyMap
    /\ tasks = EmptyMap
    /\ components = EmptyMap
    /\ componentsByEntity = EmptyMap
    /\ relationships = <<>>
    /\ cache = EmptyMap
    /\ participantState = EmptyMap

\* ------------------------------------------------------------------------
\* Settings
\* ------------------------------------------------------------------------

Keys == {"K1", "K2"}
\* config.settings is Record<string, string> (types.ts 3)
ConfigVals == {Str("cfg"), Str("false")}
\* setSetting takes string | boolean | null
SettingVals == {Str("cfg"), Str("new"), Bool(TRUE), Bool(FALSE)}
EnvVals == {Str("env")}
MapsTo(K, V) == UNION {[D -> V] : D \in SUBSET K}
Configs == MapsTo(Keys, ConfigVals)
DefaultConfig == EmptyMap

\* getSetting reading the environment before the two maps.
getSettingEnvFirst(st, sec, en, key) ==
    IF Has(en, key) THEN en[key]
    ELSE IF Has(st, key) THEN st[key]
    ELSE IF Has(sec, key) THEN sec[key]
    ELSE NULLV

\* getSetting testing the stored value for truthiness instead of presence.
getSettingTruthy(st, sec, en, key) ==
    IF Has(st, key) /\ st[key] \notin {Bool(FALSE), Str("")} THEN st[key]
    ELSE IF Has(sec, key) THEN sec[key]
    ELSE IF Has(en, key) THEN en[key]
    ELSE NULLV

getSetting(st, sec, en, key) ==
    IF Has(st, key) THEN st[key]                \* v !== undefined
    ELSE IF Has(sec, key) THEN sec[key]         \* key in secrets
    ELSE IF Has(en, key) THEN en[key]           \* env !== undefined
    ELSE NULLV

\* setSetting's effect on this.settings
setSettingSettings(st, key, value) ==
    IF value = NULLV THEN MapDelete(st, key) ELSE MapSet(st, key, value)

\* setSetting leaving the secrets sub-map alone on null.
setSettingSecretsKept(sec, key, value) == sec

\* setSetting's effect on character.settings.secrets
setSettingSecrets(sec, key, value) ==
    IF value = NULLV THEN MapDelete(sec, key) ELSE sec

\* new RuntimeBridge({config}): both maps are copies of config.settings
InitSettings(cfg) ==
    /\ settings = cfg
    /\ secrets = cfg
    /\ env \in MapsTo(Keys, EnvVals)
    /\ settingsCall = [op |-> "none", key |-> "", arg |-> NONE, ret |-> NONE]
    /\ lastSet = [k \in Keys |-> NONE]

GetSetting(key) ==
    /\ settingsCall' = [op |-> "getSetting", key |-> key, arg |-> NONE,
                        ret |-> getSetting(settings, secrets, env, key)]
    /\ UNCHANGED <<settings, secrets, env, lastSet, notSettings>>

SetSetting(key, value) ==
    /\ settings' = setSettingSettings(settings, key, value)
    /\ secrets' = setSettingSecrets(secrets, key, value)
    /\ settingsCall' = [op |-> "setSetting", key |-> key, arg |-> value, ret |-> NONE]
    /\ lastSet' = [lastSet EXCEPT ![key] = value]
    /\ UNCHANGED <<env, notSettings>>

\* The environment is not the shim's: the process may set or delete a variable.
SetEnv(key, value) ==
    /\ env' = MapSet(env, key, value)
    /\ settingsCall' = [op |-> "setEnv", key |-> key, arg |-> value, ret |-> NONE]
    /\ UNCHANGED <<settings, secrets, lastSet, notSettings>>

UnsetEnv(key) ==
    /\ Has(env, key)
    /\ env' = MapDelete(env, key)
    /\ settingsCall' = [op |-> "unsetEnv", key |-> key, arg |-> NONE, ret |-> NONE]
    /\ UNCHANGED <<settings, secrets, lastSet, notSettings>>

NextSettings ==
    \/ \E k \in Keys : GetSetting(k)
    \/ \E k \in Keys, v \in SettingVals \cup {NULLV} : SetSetting(k, v)
    \/ \E k \in Keys, v \in EnvVals : SetEnv(k, v)
    \/ \E k \in Keys : UnsetEnv(k)

InitSettingsDefault ==
    /\ InitSettings(DefaultConfig)
    /\ env = EmptyMap

\* ------------------------------------------------------------------------
\* Claims on settings
\* ------------------------------------------------------------------------

\* C5: getSetting(key) returns the settings map's value if the key is present
\* there, else the secrets sub-map's value if present there, else the
\* environment variable if defined, else null; a settings value wins over an
\* environment variable of the same key.
C5_ResolutionOrder ==
    settingsCall.op = "getSetting" =>
        LET k == settingsCall.key
            r == settingsCall.ret
        IN /\ Has(settings, k) => r = settings[k]
           /\ ~Has(settings, k) /\ Has(secrets, k) => r = secrets[k]
           /\ ~Has(settings, k) /\ ~Has(secrets, k) /\ Has(env, k) => r = env[k]
           /\ ~Has(settings, k) /\ ~Has(secrets, k) /\ ~Has(env, k) => r = NULLV

\* a getSetting of a key that is in the settings map and in the environment,
\* with different values, while another key is held by the environment alone
C5_Witness ==
    /\ settingsCall.op = "getSetting"
    /\ Has(settings, settingsCall.key) /\ Has(env, settingsCall.key)
    /\ settings[settingsCall.key] # env[settingsCall.key]
    /\ settingsCall.ret = settings[settingsCall.key]
    /\ \E k \in Keys : ~Has(settings, k) /\ ~Has(secrets, k) /\ Has(env, k)

\* C6 as stated: after setSetting(key, null), getSetting(key) returns null
\* even if an environment variable named key exists.
C6_NullAfterDelete ==
    (settingsCall.op = "getSetting" /\ lastSet[settingsCall.key] = NULLV)
        => settingsCall.ret = NULLV

\* C6 amended: after setSetting(key, null), getSetting(key) returns the
\* environment variable named key when one is defined and null when none is;
\* it never returns the deleted settings or secrets value.
C6_EnvAfterDelete ==
    (settingsCall.op = "getSetting" /\ lastSet[settingsCall.key] = NULLV)
        => settingsCall.ret =
              IF Has(env, settingsCall.key) THEN env[settingsCall.key] ELSE NULLV

\* a getSetting of a key deleted by setSetting(key, null) whose environment
\* variable exists
C6_Witness ==
    /\ settingsCall.op = "getSetting"
    /\ lastSet[settingsCall.key] = NULLV
    /\ Has(env, settingsCall.key)
    /\ settingsCall.ret = env[settingsCall.key]

\* C7: after setSetting(key, v) with a non-null v, getSetting(key) returns v,
\* type included (false is returned as false); after setSetting(key, null) the
\* key is in neither the settings map nor the secrets sub-map.
C7_SetThenGet ==
    /\ \A k \in Keys : lastSet[k] = NULLV => ~Has(settings, k) /\ ~Has(secrets, k)
    /\ \A k \in Keys : lastSet[k] \notin {NULLV, NONE} =>
            Has(settings, k) /\ settings[k] = lastSet[k]
    /\ (settingsCall.op = "getSetting" /\ lastSet[settingsCall.key] \notin {NULLV, NONE})
            => settingsCall.ret = lastSet[settingsCall.key]

\* a getSetting that returns the boolean false set before it, while the
\* secrets map and the environment hold other values for the key
C7_Witness ==
    /\ settingsCall.op = "getSetting"
    /\ lastSet[settingsCall.key] = Bool(FALSE)
    /\ settingsCall.ret = Bool(FALSE)
    /\ Has(secrets, settingsCall.key) /\ Has(env, settingsCall.key)

\* ------------------------------------------------------------------------
\* The store's memories
\* ------------------------------------------------------------------------

\* The cap of a memory table.  The source's cap is 10_000
\* (in-memory-store.test.ts 769); the model runs the same eviction loop
\* against a small cap.
MAX_MEMORIES_PER_TABLE == 2
\* How many memories past the cap one run creates.
MaxEvict == 2
MaxCreates == MAX_MEMORIES_PER_TABLE + MaxEvict
Tables == {"messages", "facts"}
\* Ids a caller supplies; randomUUID() yields UuidBase + 1, UuidBase + 2, ...
MemIds == 1..MaxCreates
UuidBase == 100
NoId == 0
\* createdAt values, a caller's or Date.now()'s
Times == {1}
NoTime == -1
MemRooms == {"r1"}

\* A Memory as the store holds it; one without an embedding has <<>>.
Memory(id, createdAt, roomId) ==
    [id |-> id, createdAt |-> createdAt, roomId |-> roomId,
     entityId |-> "e1", agentId |-> "a1", worldId |-> "w1", unique |-> FALSE,
     embedding |-> <<>>]

\* null as a lookup's answer, in a memory's shape so that it compares with one
NoMemory == Memory(NoId, NoTime, "")

\* The memories a caller passes to createMemory: without an id, with an id
\* used before, or with a new one.  Ids are opaque, so a caller's new id is
\* named by the next unused number.
CallerIds(log) ==
    LET used == {log[i][2] : i \in 1..Len(log)} \cap MemIds
    IN {i \in MemIds : i <= Cardinality(used) + 1}

MemoryInputs(log) ==
    {[id |-> i, createdAt |-> c, roomId |-> r] :
        i \in CallerIds(log) \cup {NoId}, c \in Times \cup {NoTime}, r \in MemRooms}

RECURSIVE EvictNewest(_, _)
\* The eviction loop dropping the newest entry instead of the oldest.
EvictNewest(table, byId) ==
    IF Len(table) > MAX_MEMORIES_PER_TABLE
    THEN EvictNewest(SubSeq(table, 1, Len(table) - 1),
                     MapDelete(byId, table[Len(table)].id))
    ELSE <<table, byId>>

RECURSIVE Evict(_, _)
\* while (table.length > MAX) { evicted = table.shift(); memoriesById.delete(evicted.id) }
\* (every id of the model is a non-empty string in the source, so evicted?.id holds)
Evict(table, byId) ==
    IF Len(table) > MAX_MEMORIES_PER_TABLE
    THEN Evict(Tail(table), MapDelete(byId, Head(table).id))
    ELSE <<table, byId>>

RECURSIVE Filter(_, _)
\* Array.prototype.filter with the predicate given as the set of values kept
Filter(seq, keep) ==
    IF seq = <<>> THEN <<>>
    ELSE IF Head(seq) \in keep THEN <<Head(seq)>> \o Filter(Tail(seq), keep)
    ELSE Filter(Tail(seq), keep)

RECURSIVE InsertDesc(_, _)
\* m placed after every element whose createdAt is not smaller than m's
InsertDesc(sorted, m) ==
    IF sorted = <<>> THEN <<m>>
    ELSE IF Head(sorted).createdAt >= m.createdAt
         THEN <<Head(sorted)>> \o InsertDesc(Tail(sorted), m)
         ELSE <<m>> \o sorted

RECURSIVE SortDesc(_)
\* result.sort((a, b) => b.createdAt - a.createdAt): stable, newest first
SortDesc(seq) ==
    IF seq = <<>> THEN <<>>
    ELSE InsertDesc(SortDesc(SubSeq(seq, 1, Len(seq) - 1)), seq[Len(seq)])

\* Array.prototype.slice(from) and slice(0, n)
SliceFrom(seq, from) == SubSeq(seq, from + 1, Len(seq))
SliceTo(seq, n) == SubSeq(seq, 1, IF n < Len(seq) THEN n ELSE Len(seq))

\* if (n): a number that is given and is not 0
Truthy(n) == n # NoTime /\ n # 0

\* getMemories' parameters; an absent id is "" and an absent number NoTime
MemoryParams(tableName) ==
    [tableName |-> tableName, entityId |-> "", agentId |-> "", roomId |-> "",
     worldId |-> "", unique |-> FALSE, start |-> NoTime, end |-> NoTime,
     offset |-> NoTime, count |-> NoTime]

getMemoriesMatches(params, m) ==
    /\ ~(params.entityId # "" /\ m.entityId # params.entityId)
    /\ ~(params.agentId # "" /\ m.agentId # params.agentId)
    /\ ~(params.roomId # "" /\ m.roomId # params.roomId)
    /\ ~(params.worldId # "" /\ m.worldId # params.worldId)
    /\ ~(params.unique /\ ~m.unique)
    /\ ~(Truthy(params.start) /\ Truthy(m.createdAt) /\ m.createdAt < params.start)
    /\ ~(Truthy(params.end) /\ Truthy(m.createdAt) /\ m.createdAt > params.end)

getMemories(mems, params) ==
    LET table == mems[params.tableName]
        kept == {table[i] : i \in {j \in 1..Len(table) : getMemoriesMatches(params, table[j])}}
        sorted == SortDesc(Filter(table, kept))
        sliced == IF Truthy(params.offset) THEN SliceFrom(sorted, params.offset) ELSE sorted
    IN IF Truthy(params.count) THEN SliceTo(sliced, params.count) ELSE sliced

\* this.memoriesById.get(id) ?? null
getMemoryById(byId, id) == IF Has(byId, id) THEN byId[id] ELSE NoMemory

InitMemory ==
    /\ memories = [t \in Tables |-> <<>>]
    /\ memoriesById = EmptyMap
    /\ uuids = 0
    /\ createLog = <<>>
    /\ logs = <<>>

\* createMemory(memory, tableName); now is what Date.now() returns
CreateMemory(memory, tableName, now) ==
    /\ Len(createLog) < MaxCreates
    /\ LET id == IF memory.id = NoId THEN UuidBase + uuids + 1 ELSE memory.id
           full == Memory(id,
                          IF memory.createdAt = NoTime THEN now ELSE memory.createdAt,
                          memory.roomId)
           evicted == Evict(Append(memories[tableName], full), memoriesById)
       IN /\ memories' = [memories EXCEPT ![tableName] = evicted[1]]
          /\ memoriesById' = MapSet(evicted[2], id, full)
          /\ uuids' = IF memory.id = NoId THEN uuids + 1 ELSE uuids
          /\ createLog' = Append(createLog, <<tableName, id>>)
    /\ UNCHANGED <<logs, notMemory>>

NextMemory ==
    \E m \in MemoryInputs(createLog), t \in Tables, now \in Times : CreateMemory(m, t, now)

\* ------------------------------------------------------------------------
\* Claims on the store's memories
\* ------------------------------------------------------------------------

\* the ids createMemory was called with for one table, in call order
CreatedIn(t) ==
    LET idx == {i \in 1..Len(createLog) : createLog[i][1] = t}
        RECURSIVE Collect(_)
        Collect(i) == IF i > Len(createLog) THEN <<>>
                      ELSE IF i \in idx THEN <<createLog[i][2]>> \o Collect(i + 1)
                      ELSE Collect(i + 1)
    IN Collect(1)

DistinctIds ==
    \A i, j \in 1..Len(createLog) : i # j => createLog[i][2] # createLog[j][2]

Present(t) == {getMemories(memories, MemoryParams(t))[i].id :
                  i \in 1..Len(getMemories(memories, MemoryParams(t)))}

ServiceTypes == {"wallet", "chat"}
Instances == {"s1", "s2"}
PENDING == "pending"
\* How many getServiceLoadPromise calls one run makes.
MaxLoadCalls == 3
\* How many instances one type gets in one run.
MaxInstances == 2

\* getServiceLoadPromise making a new promise whenever the type has no instance.
LoadPromiseCaseNoReuse(svcs, pend, type) ==
    IF Len(svcs[type]) > 0 THEN "existing" ELSE "new"

\* Which of getServiceLoadPromise's three returns is taken.
LoadPromiseCase(svcs, pend, type) ==
    IF Len(svcs[type]) > 0 THEN "existing"      \* Promise.resolve(existing[0])
    ELSE IF Has(pend, type) THEN "pending"      \* pending.promise
    ELSE "new"                                  \* new Promise, registered as pending

InitServices ==
    /\ services = [t \in ServiceTypes |-> <<>>]
    /\ serviceLoadPromises = EmptyMap
    /\ promiseVal = <<>>
    /\ starting = {}
    /\ loadCalls = <<>>

\* An injectService that resolves the pending promise and leaves it in the
\* table.
injectServiceEffectKeepingPending(type, instance) ==
    /\ services' = [services EXCEPT ![type] = Append(@, instance)]
    /\ IF Has(serviceLoadPromises, type)
       THEN /\ promiseVal' = [promiseVal EXCEPT ![serviceLoadPromises[type]] = instance]
            /\ UNCHANGED serviceLoadPromises
       ELSE UNCHANGED <<promiseVal, serviceLoadPromises>>

\* injectService(type, instance)
injectServiceEffect(type, instance) ==
    /\ services' = [services EXCEPT ![type] = Append(@, instance)]
    /\ IF Has(serviceLoadPromises, type)
       THEN /\ promiseVal' = [promiseVal EXCEPT ![serviceLoadPromises[type]] = instance]
            /\ serviceLoadPromises' = MapDelete(serviceLoadPromises, type)
       ELSE UNCHANGED <<promiseVal, serviceLoadPromises>>

InjectService(type, instance) ==
    /\ Len(services[type]) < MaxInstances
    /\ injectServiceEffect(type, instance)
    /\ UNCHANGED <<starting, loadCalls, notServices>>

\* registerService(sc) up to its await of sc.start(this)
RegisterService(type, instance) ==
    /\ <<type, instance>> \notin starting
    /\ starting' = starting \cup {<<type, instance>>}
    /\ UNCHANGED <<services, serviceLoadPromises, promiseVal, loadCalls, notServices>>

\* sc.start(this) resolved with the instance: registerService injects it
RegisterServiceStarted(type, instance) ==
    /\ <<type, instance>> \in starting
    /\ Len(services[type]) < MaxInstances
    /\ starting' = starting \ {<<type, instance>>}
    /\ injectServiceEffect(type, instance)
    /\ UNCHANGED <<loadCalls, notServices>>

\* sc.start(this) rejected: registerService rejects and injects nothing
RegisterServiceFailed(type, instance) ==
    /\ <<type, instance>> \in starting
    /\ starting' = starting \ {<<type, instance>>}
    /\ UNCHANGED <<services, serviceLoadPromises, promiseVal, loadCalls, notServices>>

\* getServiceLoadPromise(type); a promise is named by its place in promiseVal
GetServiceLoadPromise(type) ==
    /\ Len(loadCalls) < MaxLoadCalls
    /\ LET case == LoadPromiseCase(services, serviceLoadPromises, type)
           new == Len(promiseVal) + 1
           had == Len(services[type]) > 0
       IN CASE case = "existing" ->
                 /\ promiseVal' = Append(promiseVal, services[type][1])
                 /\ loadCalls' = Append(loadCalls,
                        [type |-> type, promise |-> new, had |-> had])
                 /\ UNCHANGED serviceLoadPromises
            [] case = "pending" ->
                 /\ loadCalls' = Append(loadCalls,
                        [type |-> type, promise |-> serviceLoadPromises[type], had |-> had])
                 /\ UNCHANGED <<promiseVal, serviceLoadPromises>>
            [] case = "new" ->
                 /\ promiseVal' = Append(promiseVal, PENDING)
                 /\ serviceLoadPromises' = MapSet(serviceLoadPromises, type, new)
                 /\ loadCalls' = Append(loadCalls,
                        [type |-> type, promise |-> new, had |-> had])
    /\ UNCHANGED <<services, starting, notServices>>

NextServices ==
    \/ \E t \in ServiceTypes, i \in Instances : InjectService(t, i)
    \/ \E t \in ServiceTypes, i \in Instances : RegisterService(t, i)
    \/ \E t \in ServiceTypes, i \in Instances : RegisterServiceStarted(t, i)
    \/ \E t \in ServiceTypes, i \in Instances : RegisterServiceFailed(t, i)
    \/ \E t \in ServiceTypes : GetServiceLoadPromise(t)

\* ------------------------------------------------------------------------
\* Claims on the service registry
\* ------------------------------------------------------------------------

\* C4: two getServiceLoadPromise(T) calls made while T has no instance return
\* the same promise; that promise is unresolved as long as T has no instance
\* and, from the first injectService(T, s) on, is resolved with exactly s.
C4_LoadPromiseIdentity ==
    \A i, j \in 1..Len(loadCalls) :
        (~loadCalls[i].had /\ ~loadCalls[j].had /\ loadCalls[i].type = loadCalls[j].type)
        => /\ loadCalls[i].promise = loadCalls[j].promise
           /\ IF services[loadCalls[i].type] = <<>>
              THEN promiseVal[loadCalls[i].promise] = PENDING
              ELSE promiseVal[loadCalls[i].promise] = services[loadCalls[i].type][1]

\* two calls for a type without an instance, then two injections: the promise
\* both returned holds the first instance
C4_Witness ==
    \E i, j \in 1..Len(loadCalls) :
        /\ i # j
        /\ ~loadCalls[i].had /\ ~loadCalls[j].had
        /\ loadCalls[i].type = loadCalls[j].type
        /\ loadCalls[i].promise = loadCalls[j].promise
        /\ Len(services[loadCalls[i].type]) = 2
        /\ services[loadCalls[i].type][1] # services[loadCalls[i].type][2]
        /\ promiseVal[loadCalls[i].promise] = services[loadCalls[i].type][1]

\* No type has both a pending load promise and an instance.
PendingOrInstance ==
    \A t \in ServiceTypes : ~(Has(serviceLoadPromises, t) /\ Len(services[t]) > 0)

\* C40: in every state of the service registry no type has both a pending
\* load promise and an instance.  The step that injects an instance of a type
\* with a pending promise resolves that promise with the instance and removes
\* it from the pending table; a type gets a pending promise only in a
\* getServiceLoadPromise made while it has no instance; and a
\* getServiceLoadPromise for a type that has an instance returns a promise
\* already resolved with the first instance registered for the type, and
\* leaves the pending table as it is.
C40_PendingXorInstance ==
    [][/\ PendingOrInstance /\ PendingOrInstance'
       /\ \A t \in ServiceTypes :
             /\ (services'[t] # services[t] /\ Has(serviceLoadPromises, t)) =>
                   /\ ~Has(serviceLoadPromises', t)
                   /\ promiseVal'[serviceLoadPromises[t]] = services'[t][Len(services'[t])]
             /\ (~Has(serviceLoadPromises, t) /\ Has(serviceLoadPromises', t)) =>
                   /\ services[t] = <<>>
                   /\ Len(loadCalls') = Len(loadCalls) + 1
                   /\ loadCalls'[Len(loadCalls')].type = t
                   /\ promiseVal'[serviceLoadPromises'[t]] = PENDING
       /\ (loadCalls' # loadCalls /\ services[loadCalls'[Len(loadCalls')].type] # <<>>) =>
             /\ promiseVal'[loadCalls'[Len(loadCalls')].promise]
                   = services[loadCalls'[Len(loadCalls')].type][1]
             /\ serviceLoadPromises' = serviceLoadPromises]_vars

\* A type whose pending promise was resolved by the first of its two
\* instances has no pending entry, and a later getServiceLoadPromise for it
\* returned another promise, resolved with the first instance.
C40_Witness ==
    \E i, j \in 1..Len(loadCalls) :
        LET t == loadCalls[i].type
        IN /\ i < j
           /\ loadCalls[j].type = t
           /\ ~loadCalls[i].had /\ loadCalls[j].had
           /\ loadCalls[i].promise # loadCalls[j].promise
           /\ Len(services[t]) = 2
           /\ services[t][1] # services[t][2]
           /\ promiseVal[loadCalls[i].promise] = services[t][1]
           /\ promiseVal[loadCalls[j].promise] = services[t][1]
           /\ ~Has(serviceLoadPromises, t)

\* ------------------------------------------------------------------------
\* Worlds, rooms, entities, participants and the shim's ensure helpers
\* ------------------------------------------------------------------------

\* Ids a caller supplies for rows; randomUUID() yields UuidBase + 1, ...
WorldIds == {1}
RoomIds == {1}
EntityIds == {1}
Names == {"a", "b"}
\* How many rows without an id one run creates.
MaxRowUuids == 1
EnsureSlots == {1, 2}

\* A world, room or entity, as passed in and as stored ({...row, id}).  An
\* entity's names array is its one name; a world has no worldId ("" here).
Row(id, name, worldId) == [id |-> id, name |-> name, worldId |-> worldId]
NoRow == Row(NoId, "", NoId)

\* One thing an ensure call has left to do: a check-then-create of a world,
\* room, entity or participant ("ensure"), or an unconditional createEntities
\* ("create").
Task(kind, how, row, entityId, rows) ==
    [kind |-> kind, how |-> how, row |-> row, entityId |-> entityId, rows |-> rows]

Idle == [op |-> "idle", pc |-> "done", todo |-> <<>>, found |-> FALSE,
         before |-> [worlds |-> {}, rooms |-> {}, entities |-> {}]]

\* the id createWorld / createRooms / createEntities stores a row under:
\* row.id ?? randomUUID()
StoredId(row, n) == IF row.id = NoId THEN UuidBase + n + 1 ELSE row.id

\* createWorld, createRooms and createEntities: this.X.set(id, {...row, id})
createRow(table, row, n) ==
    MapSet(table, StoredId(row, n), [row EXCEPT !.id = StoredId(row, n)])

RECURSIVE createRows(_, _, _)
\* createEntities(ents): every entity of the list is set, in order
createRows(table, rowSeq, n) ==
    IF rowSeq = <<>> THEN table
    ELSE createRows(createRow(table, Head(rowSeq), n), Tail(rowSeq),
                    IF Head(rowSeq).id = NoId THEN n + 1 ELSE n)

NoIds(rowSeq) == Cardinality({i \in 1..Len(rowSeq) : rowSeq[i].id = NoId})

\* An add that does not look whether the entity is in the room already.
addParticipantAppend(parts, entityId, roomId) ==
    MapSet(parts, roomId, Append(IF Has(parts, roomId) THEN parts[roomId] ELSE <<>>, entityId))

\* addParticipantsRoom([entityId], roomId): parts = participants.get(roomId) ??
\* new Set(); parts.add(entityId).  A Set keeps its members in insertion
\* order, each once: the room's participants are a list without repeats.
addParticipant(parts, entityId, roomId) ==
    LET list == IF Has(parts, roomId) THEN parts[roomId] ELSE <<>>
    IN MapSet(parts, roomId, IF entityId \in Range(list) THEN list ELSE Append(list, entityId))

\* isRoomParticipant(roomId, entityId)
isRoomParticipant(parts, roomId, entityId) ==
    Has(parts, roomId) /\ entityId \in Range(parts[roomId])

InitRows ==
    /\ worlds = EmptyMap
    /\ rooms = EmptyMap
    /\ entities = EmptyMap
    /\ participants = EmptyMap
    /\ rowUuids = 0
    /\ ensureCalls = [c \in EnsureSlots |-> Idle]
    /\ rowStep = [slot |-> 0, what |-> "none"]

\* ensureWorldExists(w): what the call has to do
ensureWorldTasks(w) == <<Task("world", "ensure", w, NoId, <<>>)>>
\* ensureRoomExists(r)
ensureRoomTasks(r) == <<Task("room", "ensure", r, NoId, <<>>)>>

\* ensureConnection(p): world, room, entity, participant, each check-then-create
ensureConnectionTasks(p) ==
    << Task("world", "ensure",
            Row(p.worldId, IF p.worldName = "" THEN "default" ELSE p.worldName, NoId),
            NoId, <<>>),
       Task("room", "ensure", Row(p.roomId, "", p.worldId), NoId, <<>>),
       Task("entity", "ensure",
            Row(p.entityId, IF p.userName = "" THEN "unknown" ELSE p.userName, NoId),
            NoId, <<>>),
       Task("participant", "ensure", Row(p.roomId, "", NoId), p.entityId, <<>>) >>

\* ensureConnections(entities, rooms, _src, world): the world and the rooms are
\* ensured; the entities, if any, are passed to createEntities as they are
ensureConnectionsTasks(ents, rms, world) ==
    <<Task("world", "ensure", world, NoId, <<>>)>>
    \o [i \in 1..Len(rms) |-> Task("room", "ensure", rms[i], NoId, <<>>)]
    \o (IF Len(ents) > 0 THEN <<Task("entities", "create", NoRow, NoId, ents)>>
        ELSE <<>>)

\* The rows as one value, for the operators below.
Store == [worlds |-> worlds, rooms |-> rooms, entities |-> entities,
          participants |-> participants, rowUuids |-> rowUuids]

SetStore(st) ==
    /\ worlds' = st.worlds
    /\ rooms' = st.rooms
    /\ entities' = st.entities
    /\ participants' = st.participants
    /\ rowUuids' = st.rowUuids

\* The check of a task: getWorld / getRoom / getEntityById / isRoomParticipant
TaskExists(st, task) ==
    CASE task.kind = "world" -> Has(st.worlds, task.row.id)
      [] task.kind = "room" -> Has(st.rooms, task.row.id)
      [] task.kind = "entity" -> Has(st.entities, task.row.id)
      [] task.kind = "participant" ->
            isRoomParticipant(st.participants, task.row.id, task.entityId)
      [] OTHER -> FALSE

\* The create of a task: createWorld / createRooms / createEntities /
\* addParticipantsRoom
WriteTask(st, task) ==
    LET fresh == IF task.row.id = NoId THEN 1 ELSE 0
    IN CASE task.kind = "world" ->
              [st EXCEPT !.worlds = createRow(@, task.row, st.rowUuids),
                         !.rowUuids = @ + fresh]
         [] task.kind = "room" ->
              [st EXCEPT !.rooms = createRow(@, task.row, st.rowUuids),
                         !.rowUuids = @ + fresh]
         [] task.kind = "entity" ->
              [st EXCEPT !.entities = createRow(@, task.row, st.rowUuids),
                         !.rowUuids = @ + fresh]
         [] task.kind = "entities" ->
              [st EXCEPT !.entities = createRows(@, task.rows, st.rowUuids),
                         !.rowUuids = @ + NoIds(task.rows)]
         [] task.kind = "participant" ->
              [st EXCEPT !.participants = addParticipant(@, task.entityId, task.row.id)]

\* An ensure that creates whatever it found.
ensureShouldCreateAlways(found) == TRUE

\* if (!row.id || !(await this.store.getX(row.id))) create: after the check,
\* the row is created when none was found
ensureShouldCreate(found) == ~found

\* A task that writes before its first await: a createEntities, or the
\* ensure of a world or room without an id (!w.id short-circuits the check).
StartsWithWrite(task) ==
    \/ task.how = "create"
    \/ task.kind \in {"world", "room"} /\ task.row.id = NoId

\* How many ids randomUUID() will be asked for by a list of tasks.
FreshNeeded(todo) ==
    Cardinality({i \in 1..Len(todo) : todo[i].how = "ensure" /\ todo[i].row.id = NoId
                                      /\ todo[i].kind # "participant"})
    + Cardinality({<<i, j>> \in (1..Len(todo)) \X (1..2) :
                      j <= Len(todo[i].rows) /\ todo[i].rows[j].id = NoId})

\* The first task of a call's todo list runs up to its first await.
StartTask(c, call) ==
    LET task == call.todo[1]
    IN IF StartsWithWrite(task)
       THEN /\ SetStore(WriteTask(Store, task))
            /\ ensureCalls' = [ensureCalls EXCEPT ![c] =
                  [call EXCEPT !.pc = IF Len(call.todo) = 1 THEN "done" ELSE "next"]]
       ELSE /\ UNCHANGED <<worlds, rooms, entities, participants, rowUuids>>
            /\ ensureCalls' = [ensureCalls EXCEPT ![c] =
                  [call EXCEPT !.pc = "cont", !.found = TaskExists(Store, task)]]

\* The supplied ids of a call that are stored when the call is made.
Before(todo) ==
    LET ids(kind) == {todo[i].row.id : i \in {j \in 1..Len(todo) : todo[j].kind = kind}}
                     \cup (IF kind = "entity"
                           THEN {todo[i].rows[j].id : <<i, j>> \in
                                   {<<a, b>> \in (1..Len(todo)) \X (1..2) :
                                        b <= Len(todo[a].rows)}}
                           ELSE {})
    IN [worlds |-> ids("world") \cap DOMAIN worlds,
        rooms |-> ids("room") \cap DOMAIN rooms,
        entities |-> ids("entity") \cap DOMAIN entities]

\* A call of an ensure helper, up to its first await.
EnsureBegin(c, op, todo) ==
    /\ ensureCalls[c].pc = "done"
    /\ rowUuids + FreshNeeded(todo)
         + FreshNeeded(ensureCalls[CHOOSE d \in EnsureSlots : d # c].todo) <= MaxRowUuids
    /\ StartTask(c, [op |-> op, pc |-> "begin", todo |-> todo, found |-> FALSE,
                     before |-> Before(todo)])
    /\ rowStep' = [slot |-> c, what |-> "begin"]
    /\ UNCHANGED notRows

\* The call resumes after its check: it creates the row if it found none.
EnsureCont(c) ==
    LET call == ensureCalls[c]
    IN /\ call.pc = "cont"
       /\ IF ensureShouldCreate(call.found)
          THEN SetStore(WriteTask(Store, call.todo[1]))
          ELSE UNCHANGED <<worlds, rooms, entities, participants, rowUuids>>
       /\ ensureCalls' = [ensureCalls EXCEPT ![c] =
             [call EXCEPT !.pc = IF Len(call.todo) = 1 THEN "done" ELSE "next"]]
       /\ rowStep' = [slot |-> c, what |-> "cont"]
       /\ UNCHANGED notRows

\* The call resumes after one helper returned and calls the next.
EnsureNext(c) ==
    LET call == ensureCalls[c]
    IN /\ call.pc = "next"
       /\ StartTask(c, [call EXCEPT !.todo = Tail(@)])
       /\ rowStep' = [slot |-> c, what |-> "next"]
       /\ UNCHANGED notRows

WorldInputs == {Row(i, n, NoId) : i \in WorldIds \cup {NoId}, n \in Names}
RoomInputs == {Row(i, n, w) : i \in RoomIds \cup {NoId}, n \in Names, w \in WorldIds}
EntityInputs == {Row(i, n, NoId) : i \in EntityIds \cup {NoId}, n \in Names}
ConnectionInputs ==
    {[entityId |-> e, roomId |-> r, worldId |-> w, userName |-> u, worldName |-> n] :
        e \in EntityIds, r \in RoomIds, w \in WorldIds, u \in {"", "b"}, n \in {"", "b"}}
\* ensureConnections' arguments: no or one entity, no or one room, a world
ConnectionsInputs ==
    {<<ents, rms, w>> : ents \in {<<>>} \cup {<<e>> : e \in EntityInputs},
                        rms \in {<<>>, <<Row(1, "b", 1)>>},
                        w \in {Row(1, "b", NoId)}}

EnsureWorldExists(c, w) == EnsureBegin(c, "ensureWorldExists", ensureWorldTasks(w))
EnsureRoomExists(c, r) == EnsureBegin(c, "ensureRoomExists", ensureRoomTasks(r))
EnsureConnection(c, p) == EnsureBegin(c, "ensureConnection", ensureConnectionTasks(p))
EnsureConnections(c, ents, rms, world) ==
    EnsureBegin(c, "ensureConnections", ensureConnectionsTasks(ents, rms, world))

\* createWorld, createRoom and createEntity called on the shim: straight to the store
CreateRow(kind, row) ==
    /\ row.id # NoId
    /\ SetStore(WriteTask(Store, Task(kind, "create", row, NoId, <<>>)))
    /\ rowStep' = [slot |-> 0, what |-> kind]
    /\ UNCHANGED <<ensureCalls, notRows>>

\* ensureWorldExists and ensureRoomExists, two calls at a time, among direct
\* creates
NextRows ==
    \/ \E c \in EnsureSlots, w \in WorldInputs : EnsureWorldExists(c, w)
    \/ \E c \in EnsureSlots, r \in RoomInputs : EnsureRoomExists(c, r)
    \/ \E c \in EnsureSlots : EnsureCont(c)
    \/ \E w \in WorldInputs : CreateRow("world", w)
    \/ \E r \in RoomInputs : CreateRow("room", r)

\* ensureConnection and ensureConnections, one call at a time, among direct
\* creates
NextConnections ==
    \/ \E p \in ConnectionInputs : EnsureConnection(1, p)
    \/ \E a \in ConnectionsInputs : EnsureConnections(1, a[1], a[2], a[3])
    \/ EnsureCont(1)
    \/ EnsureNext(1)
    \/ \E w \in WorldInputs : CreateRow("world", w)
    \/ \E r \in RoomInputs : CreateRow("room", r)
    \/ \E e \in EntityInputs : CreateRow("entity", e)

\* ------------------------------------------------------------------------
\* Properties of the ensure helpers
\* ------------------------------------------------------------------------

\* The table a kind of row is stored in.
TableOf(kind, w, r, e) ==
    CASE kind = "world" -> w
      [] kind = "room" -> r
      [] OTHER -> e

\* The call in slot c has just taken the step that led to this state.
Stepped(c, ops) ==
    /\ rowStep'.slot = c
    /\ rowStep'.what \in {"begin", "cont", "next"}
    /\ ensureCalls'[c].op \in ops

\* C9: ensureWorldExists and ensureRoomExists are existing-wins.  A call whose
\* argument's id was stored when the call was made changes no world and no
\* room, whatever the argument's other fields; a call whose argument has no id,
\* or an id that was not stored, has on its return stored the argument as a
\* row (under the argument's id, or under a fresh one when it has none).
C9_ExistingWins ==
    [][\A c \in EnsureSlots :
         Stepped(c, {"ensureWorldExists", "ensureRoomExists"}) =>
           LET call == ensureCalls'[c]
               task == call.todo[1]
               kind == task.kind
               existed == task.row.id # NoId /\ task.row.id \in call.before[kind \o "s"]
               old == TableOf(kind, worlds, rooms, entities)
               new == TableOf(kind, worlds', rooms', entities')
           IN /\ existed => (worlds' = worlds /\ rooms' = rooms)
              /\ (~existed /\ call.pc = "done") =>
                    \E id \in DOMAIN new :
                       /\ new[id] = [task.row EXCEPT !.id = id]
                       /\ IF task.row.id = NoId THEN id \notin DOMAIN old
                          ELSE id = task.row.id]_vars

\* An ensureWorldExists or ensureRoomExists has returned whose argument named
\* a stored row under another name, and the stored row has kept its name;
\* another has returned that created its row.
C9_Witness ==
    /\ \E c \in EnsureSlots :
          LET call == ensureCalls[c]
          IN /\ call.op \in {"ensureWorldExists", "ensureRoomExists"}
             /\ call.pc = "done"
             /\ call.todo[1].row.id \in call.before[call.todo[1].kind \o "s"]
             /\ TableOf(call.todo[1].kind, worlds, rooms, entities)
                   [call.todo[1].row.id].name # call.todo[1].row.name
    /\ \E c \in EnsureSlots :
          LET call == ensureCalls[c]
          IN /\ call.op \in {"ensureWorldExists", "ensureRoomExists"}
             /\ call.pc = "done"
             /\ call.todo[1].row.id \notin call.before[call.todo[1].kind \o "s"]

\* ensureWorldExists and ensureRoomExists, two calls at a time, and nothing
\* else that writes a row.
NextEnsureTwo ==
    \/ \E c \in EnsureSlots, w \in WorldInputs : EnsureWorldExists(c, w)
    \/ \E c \in EnsureSlots, r \in RoomInputs : EnsureRoomExists(c, r)
    \/ \E c \in EnsureSlots : EnsureCont(c)

\* C38: under every interleaving of ensureWorldExists (or ensureRoomExists)
\* calls for the same id with different field values, no step of an ensure
\* call changes a world or room that is stored: the stored row stays the one
\* the first create wrote.
C38_FirstCreateStays ==
    [][\A c \in EnsureSlots :
         Stepped(c, {"ensureWorldExists", "ensureRoomExists"}) =>
           /\ \A id \in DOMAIN worlds : worlds'[id] = worlds[id]
           /\ \A id \in DOMAIN rooms : rooms'[id] = rooms[id]]_vars

\* What does hold: a step of an ensure call changes a stored world or room
\* only if the row was not yet stored when the call made its check.
C38_UnlessCheckedBefore ==
    [][\A c \in EnsureSlots :
         Stepped(c, {"ensureWorldExists", "ensureRoomExists"}) =>
           LET before == ensureCalls'[c].before
           IN /\ \A id \in DOMAIN worlds :
                    worlds'[id] # worlds[id] => id \notin before.worlds
              /\ \A id \in DOMAIN rooms :
                    rooms'[id] # rooms[id] => id \notin before.rooms]_vars

\* C10: ensureConnection and ensureConnections never overwrite an existing
\* row.  No step of such a call changes a world, room or entity whose id the
\* call was given and that was stored when the call was made.
C10_NeverOverwrite ==
    [][\A c \in EnsureSlots :
         Stepped(c, {"ensureConnection", "ensureConnections"}) =>
           LET before == ensureCalls'[c].before
           IN /\ \A id \in before.worlds : worlds'[id] = worlds[id]
              /\ \A id \in before.rooms : rooms'[id] = rooms[id]
              /\ \A id \in before.entities : entities'[id] = entities[id]]_vars

\* The same of ensureConnection alone, and of the worlds and rooms of
\* ensureConnections.
C10_ExceptEntitiesOfConnections ==
    [][\A c \in EnsureSlots :
         Stepped(c, {"ensureConnection", "ensureConnections"}) =>
           LET before == ensureCalls'[c].before
           IN /\ \A id \in before.worlds : worlds'[id] = worlds[id]
              /\ \A id \in before.rooms : rooms'[id] = rooms[id]
              /\ ensureCalls'[c].op = "ensureConnection" =>
                    \A id \in before.entities : entities'[id] = entities[id]]_vars

\* ------------------------------------------------------------------------
\* Events: registerEvent, getEvent, emitEvent
\* ------------------------------------------------------------------------

EventNames == {"e1", "e2"}
Handlers == {"h1", "h2"}
\* How many handlers one name gets, and how many names one emitEvent is given.
MaxHandlers == 2
MaxNames == 2
\* The emitEvent calls that may be in flight together.
EmitSlots == {1, 2}

\* The event argument of emitEvent: a single name, or an array of names.
EmitInputs ==
    {[array |-> FALSE, names |-> <<n>>] : n \in EventNames}
    \cup {[array |-> TRUE, names |-> ns] :
            ns \in UNION {[1..k -> EventNames] : k \in 0..MaxNames}}

\* Array.isArray(event) ? event : [event]
NamesOf(event) == event.names

\* The handlers of a name, last registered first.
handlersOfReversed(ev, name) ==
    IF Has(ev, name) THEN [i \in 1..Len(ev[name]) |-> ev[name][Len(ev[name]) + 1 - i]]
    ELSE <<>>

\* this.getEvent(name) ?? []
handlersOf(ev, name) == IF Has(ev, name) THEN ev[name] ELSE <<>>

NoEmit == [pc |-> "idle", names |-> <<>>, ni |-> 1, hi |-> 1, log |-> <<>>,
           start |-> <<>>, during |-> {}]

InitEvents ==
    /\ events = EmptyMap
    /\ emitCalls = [c \in EmitSlots |-> NoEmit]

\* registerEvent(name, handler): the handler goes to the end of the name's list
RegisterEvent(name, h) ==
    /\ Len(handlersOf(events, name)) < MaxHandlers
    /\ events' = MapSet(events, name, Append(handlersOf(events, name), h))
    /\ UNCHANGED <<emitCalls, notEvents>>

RECURSIVE Advance(_, _)
\* The two for-of loops of emitEvent, run from position (ni, hi) up to the next
\* await: the next handler of the live list is called and its promise awaited,
\* or the names are exhausted and emitEvent's promise fulfils.
Advance(call, ev) ==
    IF call.ni > Len(call.names) THEN [call EXCEPT !.pc = "fulfilled"]
    ELSE LET list == handlersOf(ev, call.names[call.ni])
         IN IF call.hi <= Len(list)
            THEN [call EXCEPT !.pc = "awaiting",
                              !.log = Append(@, <<"start", call.ni, list[call.hi]>>)]
            ELSE Advance([call EXCEPT !.ni = @ + 1, !.hi = 1], ev)

\* emitEvent(event, params), up to its first await
EmitEvent(c, event) ==
    /\ emitCalls[c].pc \in {"idle", "fulfilled", "rejected"}
    /\ emitCalls' = [emitCalls EXCEPT ![c] =
          Advance([pc |-> "run", names |-> NamesOf(event), ni |-> 1, hi |-> 1,
                   log |-> <<>>,
                   start |-> [i \in 1..Len(NamesOf(event)) |->
                                 handlersOf(events, NamesOf(event)[i])],
                   during |-> {d \in EmitSlots \ {c} : emitCalls[d].pc = "awaiting"}],
                  events)]
    /\ UNCHANGED <<events, notEvents>>

\* An emitEvent that passes over the handler after one that fulfilled.
EmitResumePassingOver(c, outcome) ==
    LET call == emitCalls[c]
        settled == [call EXCEPT !.log =
                       Append(@, <<outcome, call.ni, call.log[Len(call.log)][3]>>)]
    IN /\ call.pc = "awaiting"
       /\ emitCalls' = [emitCalls EXCEPT ![c] =
             IF outcome = "rejected" THEN [settled EXCEPT !.pc = "rejected"]
             ELSE Advance([settled EXCEPT !.hi = @ + 2], events)]
       /\ UNCHANGED <<events, notEvents>>

\* The awaited handler's promise settles and emitEvent resumes: a rejection is
\* thrown out of the loops (there is no try/catch), a fulfilment goes on to the
\* next handler.
EmitResume(c, outcome) ==
    LET call == emitCalls[c]
        settled == [call EXCEPT !.log =
                       Append(@, <<outcome, call.ni, call.log[Len(call.log)][3]>>)]
    IN /\ call.pc = "awaiting"
       /\ emitCalls' = [emitCalls EXCEPT ![c] =
             IF outcome = "rejected" THEN [settled EXCEPT !.pc = "rejected"]
             ELSE Advance([settled EXCEPT !.hi = @ + 1], events)]
       /\ UNCHANGED <<events, notEvents>>

NextEvents ==
    \/ \E name \in EventNames, h \in Handlers : RegisterEvent(name, h)
    \/ \E event \in EmitInputs : EmitEvent(1, event)
    \/ \E outcome \in {"fulfilled", "rejected"} : EmitResume(1, outcome)

\* ------------------------------------------------------------------------
\* Properties of emitEvent
\* ------------------------------------------------------------------------

IsPrefix(s, t) == Len(s) <= Len(t) /\ \A i \in 1..Len(s) : s[i] = t[i]

\* The handlers a call has started for its i-th name, in the order it did.
Ran(call, i) ==
    LET idx == {k \in 1..Len(call.log) : call.log[k][1] = "start" /\ call.log[k][2] = i}
        nth(j) == CHOOSE k \in idx : Cardinality({m \in idx : m < k}) = j - 1
    IN [j \in 1..Cardinality(idx) |-> call.log[nth(j)][3]]

\* C8 as stated: an emitEvent that has returned has invoked, for each of its
\* names, every handler that was registered for it.
C8_EveryHandlerInvoked ==
    \A c \in EmitSlots :
       emitCalls[c].pc \in {"fulfilled", "rejected"} =>
          \A i \in 1..Len(emitCalls[c].names) :
             IsPrefix(emitCalls[c].start[i], Ran(emitCalls[c], i))

\* C8: emitEvent goes through its names in order and, for each, through the
\* handlers registered for it in registration order, one at a time: a handler
\* is started only after the previous one's promise has settled.  As long as
\* the promises fulfil, every handler registered when emitEvent was called is
\* invoked; when one rejects, emitEvent rejects and starts no further handler.
\* A name with no handler invokes nothing, and emitEvent rejects only when a
\* handler did.
C8_SequentialUntilRejection ==
    \A c \in EmitSlots :
       LET call == emitCalls[c]
           log == call.log
       IN /\ \A k \in 1..Len(log) :
                /\ (log[k][1] = "start") <=> (k % 2 = 1)
                /\ k % 2 = 0 => (log[k][2] = log[k - 1][2] /\ log[k][3] = log[k - 1][3])
                /\ k > 1 => log[k - 1][2] <= log[k][2]
                /\ k < Len(log) => log[k][1] # "rejected"
          /\ \A i \in 1..Len(call.names) :
                IsPrefix(Ran(call, i), handlersOf(events, call.names[i]))
          /\ call.pc = "fulfilled" =>
                \A i \in 1..Len(call.names) : IsPrefix(call.start[i], Ran(call, i))
          /\ call.pc = "rejected" <=>
                (Len(log) > 0 /\ log[Len(log)][1] = "rejected")
          /\ call.pc = "awaiting" <=> (Len(log) % 2 = 1)

\* An emitEvent given two names has fulfilled after it invoked two handlers
\* of one name and none of the other, which has no handler.
C8_Witness ==
    \E c \in EmitSlots :
       /\ emitCalls[c].pc = "fulfilled"
       /\ Len(emitCalls[c].names) = 2
       /\ \E i, j \in 1..2 :
             /\ ~Has(events, emitCalls[c].names[i])
             /\ Len(Ran(emitCalls[c], j)) = 2
             /\ Ran(emitCalls[c], j)[1] # Ran(emitCalls[c], j)[2]

\* ------------------------------------------------------------------------
\* State composition: registerProvider, composeState
\* ------------------------------------------------------------------------

\* A provider object: its name and flags, and what its get does when called
\* (it resolves with a result whose text is the provider's name, or throws).
Provider(name, private, dynamic, alwaysRun, get) ==
    [name |-> name, private |-> private, dynamic |-> dynamic, alwaysRun |-> alwaysRun,
     get |-> get]

P1 == Provider("P1", FALSE, FALSE, FALSE, "result")
P2 == Provider("P2", FALSE, TRUE, TRUE, "result")
P3 == Provider("P3", FALSE, TRUE, FALSE, "result")
P4 == Provider("P4", TRUE, FALSE, TRUE, "throw")
ProviderPool == {P1, P2, P3, P4}
\* How many providers are registered.
MaxProviders == 3

\* message.id undefined
NoMsg == ""
\* includeList: none (null or undefined), or an array of provider names
NoList == [given |-> FALSE, names |-> {}]
IncludeLists == {NoList} \cup {[given |-> TRUE, names |-> ns] : ns \in {{}, {"P3"}, {"P1", "P4"}}}
\* The composeState calls that may be in flight together.
ComposeSlots == {1, 2}

\* The ids of the messages composeState is called with: none, "m1", or
\* "m2" once "m1" has been used (which of two unused ids comes first makes no
\* difference).
MessageIds(used) ==
    {NoMsg, "m1"} \cup (IF Has(used, "m1") THEN {"m2"} ELSE {})

\* { values, data, text: textParts.join("\n") }: the text parts, in order
\* A provider's result carries its name as text, and one key of that name in
\* values and in data, so the State's values and data have the keys of the
\* results merged.
State(textParts) ==
    [text |-> textParts, values |-> Range(textParts), data |-> Range(textParts)]

\* A cache that is read whatever skipCache says.
CacheHitIgnoringSkip(cached, msgId, skipCache) == msgId # NoMsg /\ Has(cached, msgId)

\* if (!skipCache && message.id) { cached = stateCache.get(id); if (cached) ...
CacheHit(cached, msgId, skipCache) == ~skipCache /\ msgId # NoMsg /\ Has(cached, msgId)

\* A default base list that leaves out the private providers only.
BaseListAllPublic(provs, includeList) ==
    IF includeList.given
    THEN SelectSeq(provs, LAMBDA p : p.name \in includeList.names)
    ELSE SelectSeq(provs, LAMBDA p : ~p.private)

\* const baseList = includeList ? providers.filter(named) : providers.filter(
\* neither private nor dynamic)
BaseList(provs, includeList) ==
    IF includeList.given
    THEN SelectSeq(provs, LAMBDA p : p.name \in includeList.names)
    ELSE SelectSeq(provs, LAMBDA p : ~p.private /\ ~p.dynamic)

\* const alwaysRun = providers.filter(alwaysRun, not private, not in baseList)
AlwaysRun(provs, baseList) ==
    SelectSeq(provs, LAMBDA p : p.alwaysRun /\ ~p.private /\ p \notin Range(baseList))

\* [...baseList, ...alwaysRun]
Selected(provs, includeList) ==
    BaseList(provs, includeList) \o AlwaysRun(provs, BaseList(provs, includeList))

NoCompose == [pc |-> "idle", msgId |-> NoMsg, skipCache |-> FALSE, includeList |-> NoList,
              hit |-> FALSE, queue |-> <<>>, ran |-> <<>>, textParts |-> <<>>,
              result |-> State(<<>>), reg |-> <<>>, prior |-> FALSE,
              priorState |-> State(<<>>), during |-> {}]

InitCompose ==
    /\ providers = <<>>
    /\ stateCache = EmptyMap
    /\ composeCalls = [c \in ComposeSlots |-> NoCompose]
    /\ returned = EmptyMap

\* registerProvider(p): this.providers.push(p).  The code does not look for
\* duplicates.
RegisterProvider(p) ==
    /\ Len(providers) < MaxProviders
    /\ providers' = Append(providers, p)
    /\ UNCHANGED <<stateCache, composeCalls, returned, notCompose>>

\* A composeState that leaves the cache alone when told to skip it.
ComposeAdvanceSkipLeavesCache(c, call) ==
    IF Len(call.ran) < Len(call.queue)
    THEN /\ composeCalls' = [composeCalls EXCEPT ![c] =
               [call EXCEPT !.pc = "awaiting",
                            !.ran = Append(@, call.queue[Len(call.ran) + 1])]]
         /\ UNCHANGED <<stateCache, returned>>
    ELSE /\ composeCalls' = [composeCalls EXCEPT ![c] =
               [call EXCEPT !.pc = "done", !.result = State(call.textParts)]]
         /\ IF call.msgId # NoMsg /\ ~call.skipCache
            THEN /\ stateCache' = MapSet(stateCache, call.msgId, State(call.textParts))
                 /\ returned' = MapSet(returned, call.msgId, State(call.textParts))
            ELSE UNCHANGED <<stateCache, returned>>

\* A composeState that calls the get of every selected provider at once
\* (Promise.all) and goes on when the last has settled.
ComposeAdvanceAllAtOnce(c, call) ==
    IF Len(call.ran) < Len(call.queue)
    THEN /\ composeCalls' = [composeCalls EXCEPT ![c] =
               [call EXCEPT !.pc = "awaiting", !.ran = call.queue]]
         /\ UNCHANGED <<stateCache, returned>>
    ELSE /\ composeCalls' = [composeCalls EXCEPT ![c] =
               [call EXCEPT !.pc = "done", !.result = State(call.textParts)]]
         /\ IF call.msgId # NoMsg
            THEN /\ stateCache' = MapSet(stateCache, call.msgId, State(call.textParts))
                 /\ returned' = MapSet(returned, call.msgId, State(call.textParts))
            ELSE UNCHANGED <<stateCache, returned>>

\* A composeState that caches its State only under an id the cache lacks.
ComposeAdvanceKeepsEntry(c, call) ==
    IF Len(call.ran) < Len(call.queue)
    THEN /\ composeCalls' = [composeCalls EXCEPT ![c] =
               [call EXCEPT !.pc = "awaiting",
                            !.ran = Append(@, call.queue[Len(call.ran) + 1])]]
         /\ UNCHANGED <<stateCache, returned>>
    ELSE /\ composeCalls' = [composeCalls EXCEPT ![c] =
               [call EXCEPT !.pc = "done", !.result = State(call.textParts)]]
         /\ IF call.msgId # NoMsg /\ ~Has(stateCache, call.msgId)
            THEN /\ stateCache' = MapSet(stateCache, call.msgId, State(call.textParts))
                 /\ returned' = MapSet(returned, call.msgId, State(call.textParts))
            ELSE UNCHANGED <<stateCache, returned>>

\* The loop of composeState from its next provider up to the next await: the
\* provider's get is called, or the loop is over, the State is built, cached
\* under the message's id if it has one, and returned.
ComposeAdvance(c, call) ==
    IF Len(call.ran) < Len(call.queue)
    THEN /\ composeCalls' = [composeCalls EXCEPT ![c] =
               [call EXCEPT !.pc = "awaiting",
                            !.ran = Append(@, call.queue[Len(call.ran) + 1])]]
         /\ UNCHANGED <<stateCache, returned>>
    ELSE /\ composeCalls' = [composeCalls EXCEPT ![c] =
               [call EXCEPT !.pc = "done", !.result = State(call.textParts)]]
         /\ IF call.msgId # NoMsg
            THEN /\ stateCache' = MapSet(stateCache, call.msgId, State(call.textParts))
                 /\ returned' = MapSet(returned, call.msgId, State(call.textParts))
            ELSE UNCHANGED <<stateCache, returned>>

\* composeState(message, includeList, _onlyInclude, skipCache), up to its
\* first await
ComposeState(c, msgId, includeList, skipCache) ==
    LET call == [NoCompose EXCEPT !.pc = "run", !.msgId = msgId,
                    !.skipCache = skipCache, !.includeList = includeList,
                    !.reg = providers, !.prior = Has(returned, msgId),
                    !.priorState = IF Has(returned, msgId) THEN returned[msgId]
                                   ELSE State(<<>>),
                    !.during = {d \in ComposeSlots \ {c} :
                                   /\ composeCalls[d].pc = "awaiting"
                                   /\ composeCalls[d].msgId = msgId}]
    IN /\ composeCalls[c].pc \in {"idle", "done", "rejected"}
       /\ IF CacheHit(stateCache, msgId, skipCache)
          THEN /\ composeCalls' = [composeCalls EXCEPT ![c] =
                     [call EXCEPT !.pc = "done", !.hit = TRUE,
                                  !.result = stateCache[msgId]]]
               /\ returned' = MapSet(returned, msgId, stateCache[msgId])
               /\ UNCHANGED stateCache
          ELSE ComposeAdvance(c, [call EXCEPT !.queue = Selected(providers, includeList)])
       /\ UNCHANGED <<providers, notCompose>>

\* A provider.get whose throw is not caught: composeState rejects.
afterGetUncaught(call, p) ==
    IF p.get = "result" THEN [call EXCEPT !.textParts = Append(@, p.name)]
    ELSE [call EXCEPT !.pc = "rejected"]

\* try { result = await provider.get(...) } catch { warn; continue } and the
\* merge of the result: a throw is caught and the provider skipped
afterGet(call, p) ==
    IF p.get = "result" THEN [call EXCEPT !.textParts = Append(@, p.name)]
    ELSE call

\* The awaited provider.get settles and composeState resumes.
ComposeResume(c) ==
    LET call == composeCalls[c]
        next == afterGet(call, call.ran[Len(call.ran)])
    IN /\ call.pc = "awaiting"
       /\ IF next.pc = "rejected"
          THEN /\ composeCalls' = [composeCalls EXCEPT ![c] = next]
               /\ UNCHANGED <<stateCache, returned>>
          ELSE ComposeAdvance(c, next)
       /\ UNCHANGED <<providers, notCompose>>

\* Here every provider object is registered once.
NextCompose ==
    \/ \E p \in ProviderPool : p \notin Range(providers) /\ RegisterProvider(p)
    \/ \E c \in {1}, msgId \in MessageIds(returned), includeList \in IncludeLists,
          skipCache \in BOOLEAN : ComposeState(c, msgId, includeList, skipCache)
    \/ ComposeResume(1)

\* ------------------------------------------------------------------------
\* Properties of composeState
\* ------------------------------------------------------------------------

\* C2: (calls do not overlap) composeState invokes no provider and returns the
\* State the last completed composeState for the message's id returned exactly
\* when the message has an id, skipCache is not set and an earlier composeState
\* for that id has completed; in every other case it invokes the selected
\* providers, each once.
C2_CacheHitExactlyWhen ==
    \A c \in ComposeSlots :
       LET call == composeCalls[c]
       IN call.pc # "idle" =>
            /\ call.hit <=> (call.msgId # NoMsg /\ ~call.skipCache /\ call.prior)
            /\ call.hit => /\ call.pc = "done"
                           /\ call.ran = <<>>
                           /\ call.result = call.priorState
            /\ ~call.hit =>
                  /\ IsPrefix(call.ran, Selected(call.reg, call.includeList))
                  /\ call.pc = "done" => call.ran = Selected(call.reg, call.includeList)

\* A composeState has returned from the cache, invoking no provider, a State
\* that a composition now would not yield: the State composed earlier.
C2_Witness ==
    \E c \in ComposeSlots :
       LET call == composeCalls[c]
       IN /\ call.pc = "done"
          /\ call.hit
          /\ Selected(call.reg, call.includeList) # <<>>
          /\ call.result # State([i \in 1..Len(Selected(call.reg, call.includeList)) |->
                                    Selected(call.reg, call.includeList)[i].name])

\* C3: the set of providers a composeState that finds no cached State invokes
\* is base \cup alwaysRunExtra over the providers registered when it is called:
\* base the providers named in the include-list when one is given, otherwise
\* those neither private nor dynamic; alwaysRunExtra those with alwaysRun, not
\* private and not in base.  With P1, P2, P3 registered: no include-list runs
\* exactly {P1, P2}, includeList = [P3] runs exactly {P3, P2}.
C3_InvokedSet ==
    \A c \in ComposeSlots :
       LET call == composeCalls[c]
           registered == Range(call.reg)
           base == IF call.includeList.given
                   THEN {p \in registered : p.name \in call.includeList.names}
                   ELSE {p \in registered : ~p.private /\ ~p.dynamic}
           alwaysRunExtra == {p \in registered : p.alwaysRun /\ ~p.private} \ base
       IN (call.pc # "idle" /\ ~call.hit) =>
            /\ Range(call.ran) \subseteq base \cup alwaysRunExtra
            /\ call.pc = "done" =>
                  /\ Range(call.ran) = base \cup alwaysRunExtra
                  /\ (registered = {P1, P2, P3} /\ ~call.includeList.given)
                        => Range(call.ran) = {P1, P2}
                  /\ (registered = {P1, P2, P3} /\ call.includeList = [given |-> TRUE, names |-> {"P3"}])
                        => Range(call.ran) = {P3, P2}

\* With P1, P2 and P3 registered, a composeState given includeList = [P3] has
\* returned after it invoked P3 and P2.
C3_Witness ==
    \E c \in ComposeSlots :
       LET call == composeCalls[c]
       IN /\ call.pc = "done"
          /\ ~call.hit
          /\ Range(call.reg) = {P1, P2, P3}
          /\ call.includeList = [given |-> TRUE, names |-> {"P3"}]
          /\ Range(call.ran) = {P3, P2}

\* C11: a provider whose get throws during composeState is skipped.  The
\* call never rejects; the State has the text, values and data of exactly the
\* invoked providers whose get returned, in invocation order, and nothing of
\* one that threw; and a call that has returned has invoked every selected
\* provider, those after a throwing one included.
C11_ThrowingProviderSkipped ==
    \A c \in ComposeSlots :
       LET call == composeCalls[c]
           settled == IF call.pc = "awaiting" THEN SubSeq(call.ran, 1, Len(call.ran) - 1)
                      ELSE call.ran
           returnedOf == SelectSeq(settled, LAMBDA p : p.get = "result")
       IN /\ call.pc # "rejected"
          /\ ~call.hit =>
               /\ call.textParts = [i \in 1..Len(returnedOf) |-> returnedOf[i].name]
               /\ call.pc = "done" =>
                    /\ call.ran = call.queue
                    /\ call.result.text = call.textParts
                    /\ call.result.values = {p.name : p \in Range(returnedOf)}
                    /\ call.result.data = {p.name : p \in Range(returnedOf)}

\* A composeState has returned that invoked a throwing provider and another
\* provider after it, whose text the State has.
C11_Witness ==
    \E c \in ComposeSlots :
       LET call == composeCalls[c]
       IN /\ call.pc = "done"
          /\ ~call.hit
          /\ \E i \in 1..Len(call.ran) - 1 :
                /\ call.ran[i].get = "throw"
                /\ call.ran[i + 1].get = "result"
                /\ call.ran[i + 1].name \in Range(call.result.text)

\* ------------------------------------------------------------------------
\* Queries on a memory table: getMemories
\* ------------------------------------------------------------------------

\* How many memories the queried table holds.
MaxTable == 3

\* Memories that differ in the fields getMemories looks at; the one with
\* createdAt 0 was created with that createdAt given.
QueryMemories ==
    { Memory(1, 1, "r1"),
      [Memory(2, 2, "r1") EXCEPT !.unique = TRUE],
      Memory(3, 3, "r2"),
      Memory(4, 0, "r1"),
      [Memory(5, 2, "r1") EXCEPT !.entityId = "e2", !.agentId = "a2", !.worldId = "w2"] }

\* The tables of up to MaxTable of them, in any insertion order.
QueryTables ==
    {t \in UNION {[1..n -> QueryMemories] : n \in 0..MaxTable} :
        \A i, j \in 1..Len(t) : i # j => t[i] # t[j]}

\* getMemories' arguments: slices of a room's memories, and filters
GetMemoriesInputs ==
    {[MemoryParams("messages") EXCEPT !.roomId = r, !.offset = o, !.count = c] :
        r \in {"", "r1"}, o \in {NoTime, 0, 1, 2}, c \in {NoTime, 0, 1, 2}}
    \cup {[MemoryParams("messages") EXCEPT !.entityId = e, !.agentId = a, !.worldId = w,
                                           !.unique = u, !.start = st, !.end = en] :
            e \in {"", "e1"}, a \in {"", "a1"}, w \in {"", "w1"}, u \in BOOLEAN,
            st \in {NoTime, 0, 2}, en \in {NoTime, 0, 2}}

\* A store whose "messages" table was filled by createMemory calls.
InitQuery ==
    /\ InitSettingsDefault
    /\ InitServices
    /\ InitRows
    /\ InitEvents
    /\ InitCompose
    /\ InitRecords
    /\ \E t \in QueryTables :
          /\ memories = [n \in Tables |-> IF n = "messages" THEN t ELSE <<>>]
          /\ memoriesById = [i \in {t[k].id : k \in 1..Len(t)} |->
                                (CHOOSE m \in Range(t) : m.id = i)]
    /\ uuids = 0
    /\ createLog = <<>>
    /\ logs = <<>>
    /\ lastCall = NoCall

\* getMemories(params)
GetMemories(params) ==
    /\ lastCall = NoCall
    /\ lastCall' = [op |-> "getMemories", params |-> params,
                    result |-> getMemories(memories, params)]
    /\ UNCHANGED notCalls

NextQuery == \E params \in GetMemoriesInputs : GetMemories(params)

\* The table's memories that pass the filters of the last getMemories, newest
\* first: what the call returns when neither offset nor count is given.
C12_Sorted ==
    getMemories(memories, [lastCall.params EXCEPT !.offset = NoTime, !.count = NoTime])

\* C12 as stated: getMemories returns the matching memories sorted by createdAt
\* descending, memories of one createdAt in insertion order, without the first
\* offset of them and cut to at most count.
C12_SortOffsetCount ==
    lastCall.op = "getMemories" =>
       LET sorted == C12_Sorted
           table == memories[lastCall.params.tableName]
           pos(m) == CHOOSE i \in 1..Len(table) : table[i] = m
           offset == IF lastCall.params.offset = NoTime THEN 0 ELSE lastCall.params.offset
           rest == SubSeq(sorted, offset + 1, Len(sorted))
           count == IF lastCall.params.count = NoTime THEN Len(rest)
                    ELSE lastCall.params.count
       IN /\ Range(sorted) = {m \in Range(table) : getMemoriesMatches(lastCall.params, m)}
          /\ Len(sorted) = Cardinality(Range(sorted))
          /\ \A i, j \in 1..Len(sorted) :
                i < j => \/ sorted[i].createdAt > sorted[j].createdAt
                         \/ /\ sorted[i].createdAt = sorted[j].createdAt
                            /\ pos(sorted[i]) < pos(sorted[j])
          /\ lastCall.result = SubSeq(rest, 1, IF count < Len(rest) THEN count ELSE Len(rest))

\* The same for calls whose count, if given, is not 0.
C12_ExceptCountZero ==
    (lastCall.op = "getMemories" /\ lastCall.params.count # 0) => C12_SortOffsetCount

\* C13 as stated: (offset and count not given) getMemories returns a memory of
\* the table if and only if its entityId, agentId, roomId and worldId equal
\* the given ones, it is unique when unique is requested, and its createdAt is
\* in [start, end] when start and/or end are given.
C13_FiltersExactly ==
    (lastCall.op = "getMemories" /\ lastCall.params.offset = NoTime
                                 /\ lastCall.params.count = NoTime) =>
       LET q == lastCall.params
       IN \A m \in Range(memories[q.tableName]) :
             m \in Range(lastCall.result) <=>
                /\ q.entityId # "" => m.entityId = q.entityId
                /\ q.agentId # "" => m.agentId = q.agentId
                /\ q.roomId # "" => m.roomId = q.roomId
                /\ q.worldId # "" => m.worldId = q.worldId
                /\ q.unique => m.unique
                /\ q.start # NoTime => m.createdAt >= q.start
                /\ q.end # NoTime => m.createdAt <= q.end

\* The same for memories with a createdAt other than 0 and calls whose end,
\* if given, is not 0.
C13_ExceptZeroTimes ==
    (lastCall.op = "getMemories" /\ lastCall.params.offset = NoTime
                                 /\ lastCall.params.count = NoTime
                                 /\ lastCall.params.end # 0) =>
       LET q == lastCall.params
       IN \A m \in Range(memories[q.tableName]) :
             m.createdAt # 0 =>
               (m \in Range(lastCall.result) <=>
                  /\ q.entityId # "" => m.entityId = q.entityId
                  /\ q.agentId # "" => m.agentId = q.agentId
                  /\ q.roomId # "" => m.roomId = q.roomId
                  /\ q.worldId # "" => m.worldId = q.worldId
                  /\ q.unique => m.unique
                  /\ q.start # NoTime => m.createdAt >= q.start
                  /\ q.end # NoTime => m.createdAt <= q.end)

\* ------------------------------------------------------------------------
\* Vector search: cosineSimilarity, searchMemories
\* ------------------------------------------------------------------------

\* A similarity dot / sqrt(sq) is kept as the pair of its integers dot and sq.
\* The similarity 0 the source returns for vectors it cannot compare:
SimZero == [dot |-> 0, sq |-> 1]
\* match_threshold undefined (no similarity has sq 0)
NoThreshold == [dot |-> 0, sq |-> 0]
\* params.count ?? 10
DefaultCount == 10

\* x >= y for similarities
SimGeq(x, y) ==
    IF x.dot >= 0 /\ y.dot < 0 THEN TRUE
    ELSE IF x.dot < 0 /\ y.dot >= 0 THEN FALSE
    ELSE IF x.dot >= 0 THEN x.dot * x.dot * y.sq >= y.dot * y.dot * x.sq
    ELSE x.dot * x.dot * y.sq <= y.dot * y.dot * x.sq

\* A similarity computed over the common prefix of the two vectors.
cosineSimilarityNoLengthCheck(a, b) ==
    LET n == IF Len(a) < Len(b) THEN Len(a) ELSE Len(b)
        RECURSIVE Sum(_, _, _)
        Sum(x, y, i) == IF i > n THEN 0 ELSE x[i] * y[i] + Sum(x, y, i + 1)
    IN IF Sum(a, a, 1) * Sum(b, b, 1) = 0 THEN SimZero
       ELSE [dot |-> Sum(a, b, 1), sq |-> Sum(a, a, 1) * Sum(b, b, 1)]

\* cosineSimilarity(a, b)
cosineSimilarity(a, b) ==
    LET RECURSIVE Sum(_, _, _)
        Sum(x, y, i) == IF i > Len(a) THEN 0 ELSE x[i] * y[i] + Sum(x, y, i + 1)
    IN IF Len(a) # Len(b) \/ Len(a) = 0 THEN SimZero
       ELSE IF Sum(a, a, 1) * Sum(b, b, 1) = 0 THEN SimZero
       ELSE [dot |-> Sum(a, b, 1), sq |-> Sum(a, a, 1) * Sum(b, b, 1)]

\* searchMemories' candidate filter
searchMemoriesCandidate(params, m) ==
    /\ m.embedding # <<>>
    /\ ~(params.roomId # "" /\ m.roomId # params.roomId)
    /\ ~(params.worldId # "" /\ m.worldId # params.worldId)
    /\ ~(params.entityId # "" /\ m.entityId # params.entityId)
    /\ ~(params.unique /\ ~m.unique)

\* A search that leaves the candidates in table order.
searchMemoriesUnsorted(mems, params) ==
    LET threshold == IF params.match_threshold = NoThreshold THEN [dot |-> 1, sq |-> 4]
                     ELSE params.match_threshold
        limit == IF params.count = NoTime THEN DefaultCount ELSE params.count
        scored == SelectSeq(
            [i \in 1..Len(mems[params.tableName]) |->
                [memory |-> mems[params.tableName][i],
                 similarity |-> cosineSimilarity(params.embedding,
                                                 mems[params.tableName][i].embedding)]],
            LAMBDA s : searchMemoriesCandidate(params, s.memory)
                       /\ SimGeq(s.similarity, threshold))
    IN SliceTo(scored, limit)

\* searchMemories(params): candidates, scored, kept at or above the threshold,
\* sorted by descending similarity (stable), cut to the limit; a result is
\* here the pair of the memory and its similarity
searchMemories(mems, params) ==
    LET threshold == IF params.match_threshold = NoThreshold THEN [dot |-> 1, sq |-> 4]
                     ELSE params.match_threshold
        limit == IF params.count = NoTime THEN DefaultCount ELSE params.count
        scored == SelectSeq(
            [i \in 1..Len(mems[params.tableName]) |->
                [memory |-> mems[params.tableName][i],
                 similarity |-> cosineSimilarity(params.embedding,
                                                 mems[params.tableName][i].embedding)]],
            LAMBDA s : searchMemoriesCandidate(params, s.memory)
                       /\ SimGeq(s.similarity, threshold))
        RECURSIVE Insert(_, _)
        Insert(sorted, s) ==
            IF sorted = <<>> THEN <<s>>
            ELSE IF SimGeq(Head(sorted).similarity, s.similarity)
                 THEN <<Head(sorted)>> \o Insert(Tail(sorted), s)
                 ELSE <<s>> \o sorted
        RECURSIVE Sort(_)
        Sort(seq) == IF seq = <<>> THEN <<>>
                     ELSE Insert(Sort(SubSeq(seq, 1, Len(seq) - 1)), seq[Len(seq)])
    IN SliceTo(Sort(scored), limit)

\* Memories with embeddings: comparable with the query <<1, 0>> at
\* similarity 1, 1/sqrt(2), 0 and -1, of another length, of magnitude 0, and
\* without an embedding.
SearchMemories ==
    { [Memory(6, 1, "r1") EXCEPT !.embedding = <<1, 0>>],
      [Memory(7, 1, "r1") EXCEPT !.embedding = <<1, 1>>, !.unique = TRUE],
      [Memory(8, 1, "r2") EXCEPT !.embedding = <<0, 1>>],
      [Memory(9, 1, "r1") EXCEPT !.embedding = <<-1, 0>>],
      [Memory(10, 1, "r1") EXCEPT !.embedding = <<1, 0, 0>>],
      [Memory(11, 1, "r1") EXCEPT !.embedding = <<0, 0>>],
      Memory(12, 1, "r1") }

\* The tables of up to MaxTable of them, and one of DefaultCount + 1 memories
\* of one embedding.
SearchTables ==
    {t \in UNION {[1..n -> SearchMemories] : n \in 0..MaxTable} :
        \A i, j \in 1..Len(t) : i # j => t[i] # t[j]}
    \cup {[i \in 1..DefaultCount + 1 |-> [Memory(20 + i, 1, "r1") EXCEPT !.embedding = <<1, 0>>]]}

SearchInputs ==
    {[tableName |-> "messages", embedding |-> e, match_threshold |-> th, count |-> c,
      roomId |-> r, worldId |-> "", entityId |-> en, unique |-> u] :
        e \in {<<1, 0>>, <<>>}, th \in {NoThreshold, SimZero, [dot |-> 1, sq |-> 2]},
        c \in {NoTime, 0, 1, 2}, r \in {"", "r1"}, en \in {"", "e2"}, u \in BOOLEAN}

\* A store whose "messages" table holds memories with embeddings.
InitSearch ==
    /\ InitSettingsDefault
    /\ InitServices
    /\ InitRows
    /\ InitEvents
    /\ InitCompose
    /\ InitRecords
    /\ \E t \in SearchTables :
          /\ memories = [n \in Tables |-> IF n = "messages" THEN t ELSE <<>>]
          /\ memoriesById = [i \in {t[k].id : k \in 1..Len(t)} |->
                                (CHOOSE m \in Range(t) : m.id = i)]
    /\ uuids = 0
    /\ createLog = <<>>
    /\ logs = <<>>
    /\ lastCall = NoCall

\* searchMemories(params)
SearchMemoriesCall(params) ==
    /\ lastCall = NoCall
    /\ lastCall' = [op |-> "searchMemories", params |-> params,
                    result |-> searchMemories(memories, params)]
    /\ UNCHANGED notCalls

NextSearch == \E params \in SearchInputs : SearchMemoriesCall(params)

\* The memories of the searched table that pass the filters of the last
\* searchMemories and have an embedding, with their similarity to the query at
\* or above the threshold given (0.5 when none is).
C14_Qualifying ==
    LET q == lastCall.params
        threshold == IF q.match_threshold = NoThreshold THEN [dot |-> 1, sq |-> 4]
                     ELSE q.match_threshold
    IN {m \in Range(memories[q.tableName]) :
          /\ Len(m.embedding) > 0
          /\ q.roomId # "" => m.roomId = q.roomId
          /\ q.worldId # "" => m.worldId = q.worldId
          /\ q.entityId # "" => m.entityId = q.entityId
          /\ q.unique => m.unique
          /\ SimGeq(cosineSimilarity(q.embedding, m.embedding), threshold)}

\* C14: searchMemories returns qualifying memories only, each once and with
\* its similarity, in descending order of similarity, as many as qualify up to
\* count (10 when none is given), no memory left out being more similar than
\* one returned; with count 1, the single most similar one.
C14_ThresholdOrderCount ==
    lastCall.op = "searchMemories" =>
       LET res == lastCall.result
           limit == IF lastCall.params.count = NoTime THEN 10 ELSE lastCall.params.count
           sim(m) == cosineSimilarity(lastCall.params.embedding, m.embedding)
       IN /\ \A i \in 1..Len(res) : /\ res[i].memory \in C14_Qualifying
                                    /\ res[i].similarity = sim(res[i].memory)
          /\ \A i, j \in 1..Len(res) : i < j =>
                /\ res[i].memory # res[j].memory
                /\ SimGeq(res[i].similarity, res[j].similarity)
          /\ Len(res) = IF Cardinality(C14_Qualifying) < limit
                        THEN Cardinality(C14_Qualifying) ELSE limit
          /\ \A m \in C14_Qualifying : \A i \in 1..Len(res) :
                m \notin {res[k].memory : k \in 1..Len(res)} =>
                   SimGeq(res[i].similarity, sim(m))
          /\ (lastCall.params.count = 1 /\ C14_Qualifying # {}) =>
                /\ Len(res) = 1
                /\ \A m \in C14_Qualifying : SimGeq(res[1].similarity, sim(m))

\* A search for <<1, 0>> with threshold 0 and count 1 over a table holding a
\* less similar memory before the most similar one has returned the latter;
\* and a search without count has returned 10 of 11 qualifying memories.
C14_Witness ==
    /\ lastCall.op = "searchMemories"
    /\ \/ /\ lastCall.params.count = 1
          /\ lastCall.params.match_threshold = SimZero
          /\ Cardinality(C14_Qualifying) >= 2
          /\ Len(lastCall.result) = 1
          /\ lastCall.result[1].memory # memories["messages"][1]
          /\ lastCall.result[1].similarity.dot > 0
       \/ /\ lastCall.params.count = NoTime
          /\ Cardinality(C14_Qualifying) = 11
          /\ Len(lastCall.result) = 10

\* The vectors of the searched memories and of the queries.
C15_Vectors == {m.embedding : m \in SearchMemories} \cup {<<>>, <<2, 1>>}

\* C15: the similarity of two vectors of unequal length, or of which one is
\* empty or of magnitude 0, is 0; and under a positive threshold (the default
\* included) searchMemories returns no memory whose embedding is such a vector
\* with respect to the query.
C15_IncomparableIsZero ==
    /\ \A a, b \in C15_Vectors :
          (Len(a) # Len(b) \/ a = <<>> \/ (\A i \in 1..Len(a) : a[i] = 0)
                           \/ (\A j \in 1..Len(b) : b[j] = 0))
             => cosineSimilarity(a, b) = SimZero
    /\ (lastCall.op = "searchMemories" /\ lastCall.params.match_threshold # SimZero) =>
          \A i \in 1..Len(lastCall.result) :
             LET e == lastCall.result[i].memory.embedding
             IN /\ Len(e) = Len(lastCall.params.embedding)
                /\ \E k \in 1..Len(e) : e[k] # 0

\* A search under the default threshold over a table with an embedding of
\* another length and one of magnitude 0 has returned a memory, and neither
\* of those.
C15_Witness ==
    /\ lastCall.op = "searchMemories"
    /\ lastCall.params.match_threshold = NoThreshold
    /\ \E m \in Range(memories["messages"]) : Len(m.embedding) = 3
    /\ \E m \in Range(memories["messages"]) : m.embedding = <<0, 0>>
    /\ Len(lastCall.result) = 1

\* ------------------------------------------------------------------------
\* The store's log
\* ------------------------------------------------------------------------

\* The cap of the log.  The source's cap is 5_000 (in-memory-store.test.ts
\* 771); the model runs the same eviction loop against a small cap.
MAX_LOGS == 3
\* How many entries past the cap one run appends.
MaxLogEvict == 2

RECURSIVE evictLogsNewest(_)
\* The eviction loop dropping the newest entry instead of the oldest.
evictLogsNewest(list) ==
    IF Len(list) > MAX_LOGS THEN evictLogsNewest(SubSeq(list, 1, Len(list) - 1)) ELSE list

RECURSIVE evictLogs(_)
\* while (this.logs.length > MAX_LOGS) this.logs.shift()
evictLogs(list) == IF Len(list) > MAX_LOGS THEN evictLogs(Tail(list)) ELSE list

\* log({body, entityId, roomId, type}): the entry gets a fresh id
Log(type, entityId) ==
    /\ uuids < MAX_LOGS + MaxLogEvict
    /\ logs' = evictLogs(Append(logs, [id |-> UuidBase + uuids + 1, type |-> type,
                                       entityId |-> entityId]))
    /\ uuids' = uuids + 1
    /\ UNCHANGED <<memories, memoriesById, createLog, notMemory>>

NextLogs == \E type \in {"action", "error"}, entityId \in {"e1", "e2"} : Log(type, entityId)

GetMemoryById(id) ==
    /\ Has(memoriesById, id)
    /\ lastCall' = [op |-> "getMemoryById", id |-> id,
                    result |-> getMemoryById(memoriesById, id),
                    others |-> UNION {{memories[t][i].id : i \in 1..Len(memories[t])} \ {id} :
                                         t \in {u \in Tables : \E i \in 1..Len(memories[u]) :
                                                                  memories[u][i].id = id}}]
    /\ UNCHANGED notCalls

NextReads ==
    \/ NextMemory
    \/ \E id \in MemIds : GetMemoryById(id)

\* C17: eviction is least-recently-used.  The memory read last (no memory has
\* been read since, and the memories beside it in its table when it was read
\* were last used before that) is not evicted while one of those is still in
\* a table.
C17_LeastRecentlyUsed ==
    [][(lastCall.op = "getMemoryById" /\ lastCall' = lastCall
           /\ Has(memoriesById, lastCall.id) /\ ~Has(memoriesById', lastCall.id))
         => \A t \in Tables : \A i \in 1..Len(memories'[t]) :
               memories'[t][i].id \notin lastCall.others]_vars

\* ------------------------------------------------------------------------
\* Room membership
\* ------------------------------------------------------------------------

\* The entities and rooms of the membership calls: <<entityId, roomId>>.
ParticipantInputs == {1, 2, 3} \X {1, 2}

\* addParticipant(entityId, roomId) called on the shim: straight to the
\* store's addParticipantsRoom
AddParticipant(entityId, roomId) ==
    /\ participants' = addParticipant(participants, entityId, roomId)
    /\ rowStep' = [slot |-> 0,
                   what |-> IF isRoomParticipant(participants, roomId, entityId)
                            THEN "addParticipantAgain" ELSE "addParticipant"]
    /\ UNCHANGED <<worlds, rooms, entities, rowUuids, ensureCalls, notRows>>

\* ensureParticipantInRoom(entityId, roomId): add unless isRoomParticipant
EnsureParticipantInRoom(entityId, roomId) ==
    /\ participants' = IF isRoomParticipant(participants, roomId, entityId)
                       THEN participants
                       ELSE addParticipant(participants, entityId, roomId)
    /\ rowStep' = [slot |-> 0,
                   what |-> IF isRoomParticipant(participants, roomId, entityId)
                            THEN "ensureParticipantAgain" ELSE "ensureParticipant"]
    /\ UNCHANGED <<worlds, rooms, entities, rowUuids, ensureCalls, notRows>>

NextParticipants ==
    \/ \E p \in ParticipantInputs : AddParticipant(p[1], p[2])
    \/ \E p \in ParticipantInputs : EnsureParticipantInRoom(p[1], p[2])

\* C18: room membership is a set.  No room's participants hold an entity
\* twice, and adding an entity to a room a second time (addParticipantsRoom,
\* addParticipant, ensureParticipantInRoom) gives the state the first add
\* gave, with the entity in the room exactly once.
C18_MembershipIsSet ==
    /\ \A r \in DOMAIN participants : \A i, j \in 1..Len(participants[r]) :
          i # j => participants[r][i] # participants[r][j]
    /\ \A p \in ParticipantInputs :
          LET e == p[1]
              r == p[2]
              once == addParticipant(participants, e, r)
          IN /\ addParticipant(once, e, r) = once
             /\ Cardinality({i \in 1..Len(once[r]) : once[r][i] = e}) = 1
             /\ isRoomParticipant(participants, r, e) => once = participants

\* An entity was added to a room it was in already, beside another entity.
C18_Witness ==
    /\ rowStep.what = "addParticipantAgain"
    /\ \E r \in DOMAIN participants : Len(participants[r]) = 2

\* ------------------------------------------------------------------------
\* redactSecrets
\* ------------------------------------------------------------------------

\* A string is the sequence of its characters.  The marker "***REDACTED***":
REDACTED == <<"*", "*", "*", "R", "E", "D", "A", "C", "T", "E", "D", "*", "*", "*">>

\* String.prototype.replaceAll(pat, rep) for a string pattern that is not
\* empty: the occurrences found from the left, none overlapping the one
\* before it, each replaced by rep.
RECURSIVE replaceAll(_, _, _)
replaceAll(text, pat, rep) ==
    IF text = <<>> THEN <<>>
    ELSE IF Len(pat) <= Len(text) /\ SubSeq(text, 1, Len(pat)) = pat
         THEN rep \o replaceAll(SubSeq(text, Len(pat) + 1, Len(text)), pat, rep)
         ELSE <<Head(text)>> \o replaceAll(Tail(text), pat, rep)

\* redactSecrets(text): r = text; for each v of Object.values(this.settings),
\* in the order of the object's keys, if v is a string longer than 4 then
\* r = r.replaceAll(v, "***REDACTED***").
redactSecrets(st, order, text) ==
    LET RECURSIVE loop(_, _)
        loop(r, i) ==
            IF i > Len(order) THEN r
            ELSE LET v == st[order[i]]
                 IN loop(IF v[1] = "string" /\ Len(v[2]) > 4
                         THEN replaceAll(r, v[2], REDACTED) ELSE r,
                         i + 1)
    IN loop(text, 1)

\* Settings to redact by: values above, at and under the length of 4, one
\* inside another, values made of the marker's characters, a value that is no
\* string.
InitRedact ==
    LET abcde == <<"a", "b", "c", "d", "e">>
        abcd == <<"a", "b", "c", "d">>
        bc == <<"b", "c">>
        REDAC == <<"R", "E", "D", "A", "C">>
        stars == <<"*", "*", "*", "*", "*">>
        values == {Str(abcde), Str(abcd), Str(bc), Str(REDAC), Str(stars), Bool(TRUE)}
    IN /\ settings \in MapsTo(Keys, values)
       /\ secrets = EmptyMap
       /\ env = EmptyMap
       /\ settingsCall = [op |-> "none", key |-> "", arg |-> NONE, ret |-> NONE]
       /\ lastSet = [k \in Keys |-> NONE]
       /\ InitMemory
       /\ InitServices
       /\ InitRows
       /\ InitEvents
       /\ InitCompose
       /\ InitRecords
       /\ lastCall = NoCall

\* One call of redactSecrets, on a text of up to three pieces: values of the
\* settings and another character.
RedactSecrets ==
    LET pieces == {<<"a", "b", "c", "d", "e">>, <<"b", "c">>,
                   <<"R", "E", "D", "A", "C">>, <<"*", "*", "*", "*", "*">>, <<"x">>}
        texts == {<<>>} \cup pieces \cup {p \o q : p, q \in pieces}
                        \cup {p \o q \o r : p, q, r \in pieces}
        \* Object.values lists the keys in the order they were first set in
        orders == {o \in [1..Cardinality(DOMAIN settings) -> DOMAIN settings] :
                      \A i, j \in 1..Len(o) : i # j => o[i] # o[j]}
    IN /\ lastCall = NoCall
       /\ \E text \in texts, order \in orders :
             lastCall' = [op |-> "redactSecrets", text |-> text, order |-> order,
                          result |-> redactSecrets(settings, order, text)]
       /\ UNCHANGED notCalls

\* The places of text where pat occurs
Occurrences(text, pat) ==
    {i \in 1..Len(text) : /\ i + Len(pat) - 1 <= Len(text)
                          /\ SubSeq(text, i, i + Len(pat) - 1) = pat}

\* pat occurs in text
Contains(text, pat) == Occurrences(text, pat) # {}

\* The string values of the settings longer than 4 characters, and the others
LongValues == {settings[k][2] : k \in {j \in DOMAIN settings :
                    settings[j][1] = "string" /\ Len(settings[j][2]) > 4}}
ShortValues == {settings[k][2] : k \in {j \in DOMAIN settings :
                    settings[j][1] = "string" /\ Len(settings[j][2]) <= 4}}

\* C19: redactSecrets(text) replaces every occurrence of every string setting
\* value longer than 4 characters with the redaction marker, so that its
\* result contains none of those values, and it leaves the occurrences of
\* setting values of length 4 or less unredacted.
C19_RedactsLongKeepsShort ==
    lastCall.op = "redactSecrets" =>
        /\ \A v \in LongValues : ~Contains(lastCall.result, v)
        /\ \A v \in ShortValues :
              Cardinality(Occurrences(lastCall.result, v))
                  >= Cardinality(Occurrences(lastCall.text, v))

\* What holds of redactSecrets: the result contains no long value that shares
\* no character with the marker, and a text in which no long value occurs is
\* returned as it is.
C19_ExceptMarkerAndNested ==
    lastCall.op = "redactSecrets" =>
        /\ \A v \in LongValues :
              Range(v) \cap Range(REDACTED) = {} => ~Contains(lastCall.result, v)
        /\ (\A v \in LongValues : ~Contains(lastCall.text, v))
              => lastCall.result = lastCall.text

\* ------------------------------------------------------------------------
\* Methods that are not implemented
\* ------------------------------------------------------------------------

\* The methods that only throw, each with the name it passes to the error.
NotImplementedMethods ==
    [useModel |-> "useModel", generateText |-> "generateText",
     dynamicPromptExecFromState |-> "dynamicPromptExecFromState",
     processActions |-> "processActions", evaluate |-> "evaluate",
     sendMessageToTarget |-> "sendMessageToTarget"]

\* An error that says the same of every method.
NotImplementedErrorUnnamed(methodName) ==
    [name |-> "NotImplementedError",
     message |-> <<"RuntimeBridge.", "method", "() is not implemented.">>]

\* new NotImplementedError(methodName): the message is the template
\* `RuntimeBridge.${methodName}() is not implemented.`, kept as its pieces.
NotImplementedError(methodName) ==
    [name |-> "NotImplementedError",
     message |-> <<"RuntimeBridge.", methodName, "() is not implemented.">>]

\* A call of one of the methods: the promise it returns is rejected with the
\* error, and nothing else happens.
NotImplemented(method) ==
    /\ lastCall' = [op |-> method, outcome |-> "rejected",
                    error |-> NotImplementedError(NotImplementedMethods[method])]
    /\ UNCHANGED notCalls

\* The methods called among calls that change the store
NextNotImplemented ==
    \/ \E method \in DOMAIN NotImplementedMethods : NotImplemented(method)
    \/ NextParticipants

\* C20: each unsupported method (useModel, generateText,
\* dynamicPromptExecFromState, processActions, evaluate, sendMessageToTarget)
\* always fails with a NotImplementedError whose message names the method
\* called, and changes no state of the shim or the store.
C20_NotImplementedFails ==
    /\ [](lastCall.op \in DOMAIN NotImplementedMethods =>
             /\ lastCall.outcome = "rejected"
             /\ lastCall.error.name = "NotImplementedError"
             /\ lastCall.error.message
                    = <<"RuntimeBridge.", lastCall.op, "() is not implemented.">>)
    /\ [][\A method \in DOMAIN NotImplementedMethods :
             (ENABLED NotImplemented(method))
             /\ (lastCall'.op = method /\ lastCall' # lastCall => UNCHANGED notCalls)]_vars

\* A method was called after the store had changed.
C20_Witness ==
    /\ lastCall.op = "sendMessageToTarget"
    /\ participants # EmptyMap

\* ------------------------------------------------------------------------
\* Agents, tasks and the update of a memory
\* ------------------------------------------------------------------------

\* An agent or a task: its id and one more field.  A Partial<Agent> or
\* Partial<Task> without that field has NoName there.
RecordIds == {1, 2}
NoName == ""
Record(id, name) == [id |-> id, name |-> name]

\* { ...existing, ...patch, id }: the patch's fields over the stored ones
Merged(existing, patch, id) ==
    Record(id, IF patch.name = NoName THEN existing.name ELSE patch.name)

\* An update that stores the patch under an id that is not stored.
updateAgentUpsert(ag, agentId, agent) ==
    [agents |-> MapSet(ag, agentId,
                       Merged(IF Has(ag, agentId) THEN ag[agentId] ELSE agent, agent, agentId)),
     ret |-> "true"]

\* updateAgent(agentId, agent): existing = agents.get(agentId);
\* if (!existing) return false; agents.set(...); return true
updateAgent(ag, agentId, agent) ==
    IF ~Has(ag, agentId) THEN [agents |-> ag, ret |-> "false"]
    ELSE [agents |-> MapSet(ag, agentId, Merged(ag[agentId], agent, agentId)),
          ret |-> "true"]

\* updateTask(id, task): existing = tasks.get(id); if (existing) tasks.set(...)
updateTask(ts, id, task) ==
    IF Has(ts, id) THEN MapSet(ts, id, Merged(ts[id], task, id)) ELSE ts

\* The tables in the order the Map this.memories holds them: the order in
\* which they were first written.
TableOrder(log) ==
    LET RECURSIVE firsts(_, _)
        firsts(i, seen) ==
            IF i > Len(log) THEN <<>>
            ELSE IF log[i][1] \in seen THEN firsts(i + 1, seen)
            ELSE <<log[i][1]>> \o firsts(i + 1, seen \cup {log[i][1]})
    IN firsts(1, {})

\* The first table, in the Map's order, that holds a memory of this id, and
\* the first place of it there: table.findIndex((m) => m.id === id) >= 0.
\* <<>> when no table holds one.
FindMemory(mem, order, id) ==
    LET holds(t) == {i \in 1..Len(mem[t]) : mem[t][i].id = id}
        at == {k \in 1..Len(order) : holds(order[k]) # {}}
    IN IF at = {} THEN <<>>
       ELSE LET t == order[CHOOSE k \in at : \A j \in at : k <= j]
            IN <<t, CHOOSE i \in holds(t) : \A j \in holds(t) : i <= j>>

\* updateMemory(memory): existing = memoriesById.get(memory.id); if (!existing)
\* return false; updated = { ...existing, ...memory }; memoriesById.set;
\* the first list entry of that id, if any, is replaced; return true
updateMemory(mem, byId, order, memory) ==
    IF ~Has(byId, memory.id) THEN [memories |-> mem, memoriesById |-> byId, ret |-> "false"]
    ELSE LET updated == [byId[memory.id] EXCEPT !.roomId = memory.roomId]
             found == FindMemory(mem, order, memory.id)
         IN [memories |-> IF found = <<>> THEN mem
                          ELSE [mem EXCEPT ![found[1]][found[2]] = updated],
             memoriesById |-> MapSet(byId, memory.id, updated),
             ret |-> "true"]

\* createAgent(agent) and createTask(task) with the id given: set(id, record)
CreateAgent(agent) ==
    /\ agents' = MapSet(agents, agent.id, agent)
    /\ UNCHANGED <<tasks, components, componentsByEntity, relationships, cache,
                   participantState, notRecords, lastCall>>

CreateTask(task) ==
    /\ tasks' = MapSet(tasks, task.id, task)
    /\ UNCHANGED <<agents, components, componentsByEntity, relationships, cache,
                   participantState, notRecords, lastCall>>

UpdateAgent(agentId, agent) ==
    /\ agents' = updateAgent(agents, agentId, agent).agents
    /\ lastCall' = [op |-> "updateAgent", id |-> agentId, stored |-> Has(agents, agentId),
                    ret |-> updateAgent(agents, agentId, agent).ret]
    /\ UNCHANGED <<tasks, components, componentsByEntity, relationships, cache,
                   participantState, notRecords>>

UpdateTask(id, task) ==
    /\ tasks' = updateTask(tasks, id, task)
    /\ lastCall' = [op |-> "updateTask", id |-> id, stored |-> Has(tasks, id),
                    ret |-> "undefined"]
    /\ UNCHANGED <<agents, components, componentsByEntity, relationships, cache,
                   participantState, notRecords>>

UpdateMemory(memory) ==
    LET r == updateMemory(memories, memoriesById, TableOrder(createLog), memory)
    IN /\ memories' = r.memories
       /\ memoriesById' = r.memoriesById
       /\ lastCall' = [op |-> "updateMemory", id |-> memory.id,
                       stored |-> Has(memoriesById, memory.id), ret |-> r.ret]
       /\ UNCHANGED <<uuids, createLog, logs, settingsVars, serviceVars, rowVars,
                      eventVars, composeVars, recordVars>>

\* How many memories are created beside the updates.
MaxUpdateCreates == 2

\* Creates and updates of agents, tasks and memories
NextUpdates ==
    \/ \E i \in RecordIds : CreateAgent(Record(i, "a"))
    \/ \E i \in RecordIds : CreateTask(Record(i, "a"))
    \/ \E i \in RecordIds, n \in {"b", NoName} : UpdateAgent(i, Record(i, n))
    \/ \E i \in RecordIds, n \in {"b", NoName} : UpdateTask(i, Record(i, n))
    \/ /\ Len(createLog) < MaxUpdateCreates
       /\ \E i \in RecordIds, t \in Tables : CreateMemory([id |-> i, createdAt |-> 1, roomId |-> "r1"], t, 1)
    \/ \E i \in RecordIds : UpdateMemory([id |-> i, roomId |-> "r2"])

\* C21: updateAgent and updateMemory on an id that is not stored return false,
\* updateTask on an id that is not stored does nothing, none of them throws,
\* and the store is unchanged afterwards: no row is created.
C21_UpdateOfMissing ==
    [][(/\ lastCall' # lastCall
        /\ lastCall'.op \in {"updateAgent", "updateMemory", "updateTask"}
        /\ ~lastCall'.stored)
       => /\ lastCall'.ret = (IF lastCall'.op = "updateTask" THEN "undefined" ELSE "false")
          /\ UNCHANGED <<memoryVars, rowVars, recordVars>>]_vars

\* updateAgent was called on an id that is not stored while another agent is.
C21_Witness ==
    /\ lastCall.op = "updateAgent"
    /\ ~lastCall.stored
    /\ agents # EmptyMap
    /\ memoriesById # EmptyMap

\* ------------------------------------------------------------------------
\* Deleting memories
\* ------------------------------------------------------------------------

\* deleteMemory(memoryId): memoriesById.delete(memoryId); the first list entry
\* of that id, if any, is spliced out
deleteMemory(mem, byId, order, memoryId) ==
    LET found == FindMemory(mem, order, memoryId)
        t == found[1]
        i == found[2]
    IN [memories |-> IF found = <<>> THEN mem
                     ELSE [mem EXCEPT ![t] = SubSeq(mem[t], 1, i - 1)
                                              \o SubSeq(mem[t], i + 1, Len(mem[t]))],
        memoriesById |-> MapDelete(byId, memoryId)]

\* deleteAllMemories(roomId, tableName): the table keeps the memories of other
\* rooms; the id of every removed memory is deleted from memoriesById
deleteAllMemories(mem, byId, roomId, tableName) ==
    LET table == mem[tableName]
        removed == {table[i].id : i \in {j \in 1..Len(table) : table[j].roomId = roomId}}
    IN [memories |-> [mem EXCEPT ![tableName] =
                          Filter(table, {m \in Range(table) : m.roomId # roomId})],
        memoriesById |-> [i \in (DOMAIN byId) \ removed |-> byId[i]]]

DeleteMemory(memoryId) ==
    LET r == deleteMemory(memories, memoriesById, TableOrder(createLog), memoryId)
    IN /\ memories' = r.memories
       /\ memoriesById' = r.memoriesById
       /\ lastCall' = [op |-> "deleteMemory"]
       /\ UNCHANGED <<uuids, createLog, logs, settingsVars, serviceVars, rowVars,
                      eventVars, composeVars, recordVars>>

\* deleteManyMemories(memoryIds): deleteMemory of each id in turn.  Each
\* deleteMemory runs without a pause, so the states between two of them are
\* states single deleteMemory calls reach.
DeleteManyMemories(memoryIds) ==
    LET RECURSIVE each(_, _)
        each(st, i) ==
            IF i > Len(memoryIds) THEN st
            ELSE each(deleteMemory(st.memories, st.memoriesById,
                                   TableOrder(createLog), memoryIds[i]), i + 1)
        r == each([memories |-> memories, memoriesById |-> memoriesById], 1)
    IN /\ memories' = r.memories
       /\ memoriesById' = r.memoriesById
       /\ lastCall' = [op |-> "deleteManyMemories"]
       /\ UNCHANGED <<uuids, createLog, logs, settingsVars, serviceVars, rowVars,
                      eventVars, composeVars, recordVars>>

DeleteAllMemories(roomId, tableName) ==
    LET r == deleteAllMemories(memories, memoriesById, roomId, tableName)
    IN /\ memories' = r.memories
       /\ memoriesById' = r.memoriesById
       /\ lastCall' = [op |-> "deleteAllMemories", roomId |-> roomId, table |-> tableName]
       /\ UNCHANGED <<uuids, createLog, logs, settingsVars, serviceVars, rowVars,
                      eventVars, composeVars, recordVars>>

\* Every write of a memory; ids may be the caller's and may repeat
NextMemoryWrites ==
    \/ NextMemory
    \/ \E i \in RecordIds : UpdateMemory([id |-> i, roomId |-> "r2"])
    \/ \E i \in RecordIds \cup {UuidBase + 1} : DeleteMemory(i)
    \/ \E ids \in {<<1, 2>>, <<2, UuidBase + 1>>} : DeleteManyMemories(ids)
    \/ \E r \in {"r1", "r2"}, t \in Tables : DeleteAllMemories(r, t)

\* The memories the table lists hold, with their tables: <<table, place>>
Held == {<<t, i>> \in Tables \X (1..MaxCreates) : i <= Len(memories[t])}

\* C26: in every state reachable by createMemory, updateMemory, deleteMemory,
\* deleteManyMemories and deleteAllMemories, with ids that may be the caller's
\* and may repeat, the table lists and the id map agree: every memory held in
\* a table list is the value the id map holds for its id, and every id in the
\* map belongs to a memory held in exactly one table list.
C26_ListsAndMapAgree ==
    /\ \A h \in Held :
          LET m == memories[h[1]][h[2]]
          IN Has(memoriesById, m.id) /\ memoriesById[m.id] = m
    /\ \A id \in DOMAIN memoriesById :
          Cardinality({h \in Held : memories[h[1]][h[2]].id = id}) = 1

\* No id is held twice in the table lists.
NoRepeatedId ==
    \A h, k \in Held : h # k => memories[h[1]][h[2]].id # memories[k[1]][k[2]].id

\* What holds of the two structures: they agree as long as no id is held twice.
C26_AgreeWithoutRepeats ==
    ([]NoRepeatedId) => []C26_ListsAndMapAgree

\* The step just taken is a write aimed at table t: a createMemory into t or
\* a deleteAllMemories of a room in t.
AimedAt(t) ==
    \/ /\ createLog' # createLog
       /\ createLog'[Len(createLog')][1] = t
    \/ /\ createLog' = createLog
       /\ lastCall'.op = "deleteAllMemories"
       /\ lastCall'.table = t
       /\ <<memories, memoriesById, lastCall>>' # <<memories, memoriesById, lastCall>>

\* Table u holds after the step what it held before, and getMemoryById
\* answers for each of its memories what it answered before.
Untouched(u) ==
    /\ memories'[u] = memories[u]
    /\ \A i \in 1..Len(memories[u]) :
          getMemoryById(memoriesById', memories[u][i].id)
              = getMemoryById(memoriesById, memories[u][i].id)

\* C23: memory tables are independent namespaces: createMemory (with its
\* eviction), deleteAllMemories and any other write aimed at one table never
\* change which memories another table holds nor what getMemoryById returns
\* for a memory stored in another table.
C23_TablesIndependent ==
    [][\A t \in Tables : AimedAt(t) => \A u \in Tables \ {t} : Untouched(u)]_vars

\* What holds of the tables: a write aimed at one table leaves the lists of
\* the others as they were, and their memories' lookups too when the written
\* table shares no id with them.
C23_ListsIndependent ==
    [][\A t \in Tables : AimedAt(t) => \A u \in Tables \ {t} :
          /\ memories'[u] = memories[u]
          /\ {m.id : m \in Range(memories[u])}
                 \cap {m.id : m \in Range(memories[t]) \cup Range(memories'[t])} = {}
                => Untouched(u)]_vars

\* ------------------------------------------------------------------------
\* Components and relationships
\* ------------------------------------------------------------------------

\* How long a list of components or relationships one run builds.
MaxComponents == 3

\* A component; worldId and sourceEntityId are left out by every caller of
\* the model ("" in the key).
Component(id, entityId, type, data) ==
    [id |-> id, entityId |-> entityId, type |-> type, worldId |-> "",
     sourceEntityId |-> "", data |-> data]
NoComponent == Component(NoId, NoId, "", "")

\* componentKey: `${entityId}:${type}:${worldId ?? ""}:${sourceEntityId ?? ""}`,
\* kept as the tuple of its parts (ids hold no colon)
componentKey(c) == <<c.entityId, c.type, c.worldId, c.sourceEntityId>>

\* this.components holds each value under the key of its own fields, so the
\* Map is the list of its values in the order their keys were first set.
\* components.set(key, c): in place under a key that is set, else at the end
componentsSet(comps, c) ==
    LET at == {i \in 1..Len(comps) : componentKey(comps[i]) = componentKey(c)}
    IN IF at = {} THEN Append(comps, c)
       ELSE [comps EXCEPT ![CHOOSE i \in at : TRUE] = c]

\* getComponent(entityId, type): components.get(key) ?? null
getComponent(comps, key) ==
    IF \E i \in 1..Len(comps) : componentKey(comps[i]) = key
    THEN comps[CHOOSE i \in 1..Len(comps) : componentKey(comps[i]) = key]
    ELSE NoComponent

\* list.findIndex((c) => c.id === id): the first place, 0 for -1
findIndexById(list, id) ==
    IF \E i \in 1..Len(list) : list[i].id = id
    THEN CHOOSE i \in 1..Len(list) : list[i].id = id /\ \A j \in 1..(i - 1) : list[j].id # id
    ELSE 0

\* componentsByEntity.get(entityId) ?? []
getComponents(byEntity, entityId) == IF Has(byEntity, entityId) THEN byEntity[entityId] ELSE <<>>

\* createComponent(component): the component, under its id or a new one, is
\* set in the map and pushed onto its entity's list
CreateComponent(component) ==
    LET full == [component EXCEPT !.id = IF @ = NoId THEN UuidBase + uuids + 1 ELSE @]
        existing == getComponents(componentsByEntity, component.entityId)
    IN /\ Len(existing) < MaxComponents
       /\ components' = componentsSet(components, full)
       /\ componentsByEntity' = MapSet(componentsByEntity, component.entityId,
                                       Append(existing, full))
       /\ uuids' = IF component.id = NoId THEN uuids + 1 ELSE uuids
       /\ lastCall' = [op |-> "createComponent"]
       /\ UNCHANGED <<memories, memoriesById, createLog, logs, agents, tasks, relationships,
                      cache, participantState, settingsVars, serviceVars, rowVars,
                      eventVars, composeVars>>

\* updateComponent(component): set in the map; in the entity's list the first
\* component of the same id is replaced, and without one the component is pushed
UpdateComponent(component) ==
    LET existing == getComponents(componentsByEntity, component.entityId)
        idx == findIndexById(existing, component.id)
    IN /\ idx = 0 => Len(existing) < MaxComponents
       /\ components' = componentsSet(components, component)
       /\ componentsByEntity' =
             MapSet(componentsByEntity, component.entityId,
                    IF idx > 0 THEN [existing EXCEPT ![idx] = component]
                    ELSE Append(existing, component))
       /\ lastCall' = [op |-> "updateComponent", arg |-> component]
       /\ UNCHANGED <<agents, tasks, relationships, cache, participantState, notRecords>>

\* deleteComponent(componentId): the first value of the map with that id is
\* deleted, and the first component of that id is spliced out of the list of
\* that value's entity
DeleteComponent(componentId) ==
    LET at == findIndexById(components, componentId)
        comp == components[at]
        entityComps == getComponents(componentsByEntity, comp.entityId)
        idx == findIndexById(entityComps, componentId)
    IN /\ lastCall' = [op |-> "deleteComponent"]
       /\ IF at = 0 THEN UNCHANGED <<components, componentsByEntity>>
          ELSE /\ components' = SubSeq(components, 1, at - 1)
                                  \o SubSeq(components, at + 1, Len(components))
               /\ componentsByEntity' =
                     IF idx = 0 THEN componentsByEntity
                     ELSE [componentsByEntity EXCEPT ![comp.entityId] =
                              SubSeq(entityComps, 1, idx - 1)
                                \o SubSeq(entityComps, idx + 1, Len(entityComps))]
       /\ UNCHANGED <<agents, tasks, relationships, cache, participantState, notRecords>>

\* A relationship between two entities
Relationship(id, sourceEntityId, targetEntityId, tags) ==
    [id |-> id, sourceEntityId |-> sourceEntityId, targetEntityId |-> targetEntityId,
     tags |-> tags]
NoRelationship == Relationship(NoId, NoId, NoId, "")

\* getRelationship({ sourceEntityId, targetEntityId }): the first relationship
\* between the two, or null
getRelationship(rels, sourceEntityId, targetEntityId) ==
    LET at == {i \in 1..Len(rels) : /\ rels[i].sourceEntityId = sourceEntityId
                                    /\ rels[i].targetEntityId = targetEntityId}
    IN IF at = {} THEN NoRelationship
       ELSE rels[CHOOSE i \in at : \A j \in at : i <= j]

\* createRelationship(params): pushed under a new id
CreateRelationship(sourceEntityId, targetEntityId) ==
    /\ Len(relationships) < MaxComponents - 1
    /\ relationships' = Append(relationships,
                               Relationship(UuidBase + uuids + 1, sourceEntityId,
                                            targetEntityId, "a"))
    /\ uuids' = uuids + 1
    /\ lastCall' = [op |-> "createRelationship"]
    /\ UNCHANGED <<memories, memoriesById, createLog, logs, agents, tasks, components,
                   componentsByEntity, cache, participantState, settingsVars, serviceVars,
                   rowVars, eventVars, composeVars>>

\* updateRelationship(relationship): the first relationship of the same id,
\* if any, is replaced
UpdateRelationship(relationship) ==
    LET idx == findIndexById(relationships, relationship.id)
    IN /\ relationships' = IF idx > 0 THEN [relationships EXCEPT ![idx] = relationship]
                           ELSE relationships
       /\ lastCall' = [op |-> "updateRelationship", arg |-> relationship]
       /\ UNCHANGED <<agents, tasks, components, componentsByEntity, cache,
                      participantState, notRecords>>

\* Writes of components and relationships
NextComponents ==
    \/ \E i \in {1, NoId} : CreateComponent(Component(i, 1, "t", "x"))
    \/ \E i \in {1, 2}, t \in {"t", "u"} : UpdateComponent(Component(i, 1, t, "y"))
    \/ \E i \in {1, 2} : DeleteComponent(i)
    \/ CreateRelationship(1, 3)
    \/ \E i \in {2, UuidBase + 1, UuidBase + 2} :
          UpdateRelationship(Relationship(i, 1, 3, "b"))

\* C27: in every state reachable by createComponent, updateComponent and
\* deleteComponent the composite-key map and the per-entity lists hold the
\* same components: each component in the map appears exactly once in its
\* entity's list, each list element is the map's value for its key, and so no
\* entity list holds two components with the same composite key.
C27_MapAndListsAgree ==
    /\ \A i \in 1..Len(components) :
          LET list == getComponents(componentsByEntity, components[i].entityId)
          IN Cardinality({j \in 1..Len(list) : list[j] = components[i]}) = 1
    /\ \A e \in DOMAIN componentsByEntity : \A j \in 1..Len(componentsByEntity[e]) :
          getComponent(components, componentKey(componentsByEntity[e][j]))
              = componentsByEntity[e][j]
    /\ \A e \in DOMAIN componentsByEntity : \A j, k \in 1..Len(componentsByEntity[e]) :
          j # k => componentKey(componentsByEntity[e][j]) # componentKey(componentsByEntity[e][k])

\* C29: updateComponent and updateRelationship upsert: when no component with
\* the given composite key (no relationship with the given id) is stored the
\* call inserts the supplied record, so that a following getComponent /
\* getRelationship returns it; when one is stored it is replaced.
C29_UpdatesUpsert ==
    /\ lastCall.op = "updateComponent"
          => getComponent(components, componentKey(lastCall.arg)) = lastCall.arg
    /\ lastCall.op = "updateRelationship"
          => getRelationship(relationships, lastCall.arg.sourceEntityId,
                             lastCall.arg.targetEntityId) = lastCall.arg

\* What holds of the two updates: updateComponent upserts, and
\* updateRelationship replaces a stored relationship of the id and stores none
\* otherwise.
C29_ComponentUpsertsOnly ==
    /\ lastCall.op = "updateComponent"
          => getComponent(components, componentKey(lastCall.arg)) = lastCall.arg
    /\ [][lastCall'.op = "updateRelationship"
          => /\ Len(relationships') = Len(relationships)
             /\ \A i \in 1..Len(relationships) :
                   relationships'[i] = IF i = findIndexById(relationships, lastCall'.arg.id)
                                       THEN lastCall'.arg ELSE relationships[i]]_vars

\* ------------------------------------------------------------------------
\* Updates and deletes of worlds, rooms and entities
\* ------------------------------------------------------------------------

\* updateEntity(entity), updateRoom(room), updateWorld(world):
\* if (row.id) table.set(row.id, row)
updateRow(table, row) == IF row.id # NoId THEN MapSet(table, row.id, row) ELSE table

\* A delete by world that takes the rooms of every world.
roomsOfAnyWorld(rms, worldId) == DOMAIN rms

\* deleteRoomsByWorldId(worldId): the ids of the rooms deleted
roomsOfWorld(rms, worldId) == {id \in DOMAIN rms : rms[id].worldId = worldId}

\* One of the three updates, on the table of its kind
UpdateRow(kind, row) ==
    /\ worlds' = IF kind = "world" THEN updateRow(worlds, row) ELSE worlds
    /\ rooms' = IF kind = "room" THEN updateRow(rooms, row) ELSE rooms
    /\ entities' = IF kind = "entity" THEN updateRow(entities, row) ELSE entities
    /\ rowStep' = [slot |-> 0, what |-> "update", kind |-> kind, id |-> row.id,
                   stored |-> Has(TableOf(kind, worlds, rooms, entities), row.id)]
    /\ UNCHANGED <<participants, rowUuids, ensureCalls, notRows>>

\* deleteRoom(roomId): rooms.delete(roomId); participants.delete(roomId)
DeleteRoom(roomId) ==
    /\ rooms' = MapDelete(rooms, roomId)
    /\ participants' = MapDelete(participants, roomId)
    /\ rowStep' = [slot |-> 0, what |-> "deleteRoom", id |-> roomId]
    /\ UNCHANGED <<worlds, entities, rowUuids, ensureCalls, notRows>>

\* deleteRoomsByWorldId(worldId): every room of that world is deleted, and its
\* participants with it
DeleteRoomsByWorldId(worldId) ==
    /\ rooms' = [id \in (DOMAIN rooms) \ roomsOfWorld(rooms, worldId) |-> rooms[id]]
    /\ participants' = [id \in (DOMAIN participants) \ roomsOfWorld(rooms, worldId) |->
                            participants[id]]
    /\ rowStep' = [slot |-> 0, what |-> "deleteRoomsByWorldId", id |-> worldId]
    /\ UNCHANGED <<worlds, entities, rowUuids, ensureCalls, notRows>>

\* removeWorld(id): worlds.delete(id)
RemoveWorld(id) ==
    /\ worlds' = MapDelete(worlds, id)
    /\ rowStep' = [slot |-> 0, what |-> "removeWorld", id |-> id]
    /\ UNCHANGED <<rooms, entities, participants, rowUuids, ensureCalls, notRows>>

\* Creates, updates and deletes of rows, with participants and a memory
NextRowWrites ==
    \/ \E w \in {1, 2} : CreateRow("world", Row(w, "a", NoId))
    \/ \E r \in {1, 2}, w \in {1, 2} : CreateRow("room", Row(r, "a", w))
    \/ CreateRow("entity", Row(1, "a", NoId))
    \/ \E kind \in {"world", "room", "entity"}, i \in {1, 2, NoId} :
          UpdateRow(kind, Row(i, "b", IF kind = "room" THEN 1 ELSE NoId))
    \/ \E r \in {1, 2} : AddParticipant(1, r)
    \/ \E r \in {1, 2} : DeleteRoom(r)
    \/ \E w \in {1, 2} : DeleteRoomsByWorldId(w)
    \/ \E w \in {1, 2} : RemoveWorld(w)
    \/ /\ createLog = <<>>
       /\ CreateMemory([id |-> 1, createdAt |-> 1, roomId |-> "r1"], "messages", 1)

\* The step just taken is the call rowStep names, not a createMemory after it.
RowCall(what) == rowStep'.what = what /\ createLog' = createLog

\* C28: updateEntity, updateRoom and updateWorld called with an id that is not
\* stored fail silently: the store is unchanged afterwards and a following
\* lookup of that id still returns null.
C28_UpdateOfMissingRow ==
    [][(RowCall("update") /\ ~rowStep'.stored)
       => /\ UNCHANGED <<worlds, rooms, entities, participants>>
          /\ ~Has(TableOf(rowStep'.kind, worlds', rooms', entities'), rowStep'.id)]_vars

\* What holds of the three updates: the row is stored under its id whether or
\* not one was stored, and nothing is written for a row without an id.
C28_UpdateSetsRow ==
    [][RowCall("update")
       => LET table == TableOf(rowStep'.kind, worlds, rooms, entities)
              after == TableOf(rowStep'.kind, worlds', rooms', entities')
          IN IF rowStep'.id = NoId THEN after = table
             ELSE /\ Has(after, rowStep'.id)
                  /\ \A i \in DOMAIN table \ {rowStep'.id} : Has(after, i) /\ after[i] = table[i]]_vars

\* C30: deleteRoom(id) removes the room and its participant set;
\* deleteRoomsByWorldId(w) removes every room whose worldId is w together
\* with each such room's participant set and leaves the rooms of other worlds
\* and their participants unchanged; no other delete cascades: removeWorld
\* leaves the world's rooms stored, and deleting a room leaves its memories
\* stored.
C30_DeleteCascades ==
    [][/\ RowCall("deleteRoom")
          => /\ ~Has(rooms', rowStep'.id) /\ ~Has(participants', rowStep'.id)
             /\ \A r \in DOMAIN rooms \ {rowStep'.id} : Has(rooms', r) /\ rooms'[r] = rooms[r]
             /\ \A r \in DOMAIN participants \ {rowStep'.id} :
                   Has(participants', r) /\ participants'[r] = participants[r]
             /\ UNCHANGED <<worlds, entities, memoryVars, recordVars>>
       /\ RowCall("deleteRoomsByWorldId")
          => /\ \A r \in DOMAIN rooms :
                   IF rooms[r].worldId = rowStep'.id
                   THEN ~Has(rooms', r) /\ ~Has(participants', r)
                   ELSE /\ Has(rooms', r) /\ rooms'[r] = rooms[r]
                        /\ (Has(participants, r)
                              => Has(participants', r) /\ participants'[r] = participants[r])
             /\ UNCHANGED <<worlds, entities, memoryVars, recordVars>>
       /\ RowCall("removeWorld")
          => /\ ~Has(worlds', rowStep'.id)
             /\ UNCHANGED <<rooms, participants, entities, memoryVars, recordVars>>]_vars

\* All rooms of a world were deleted while a room of another world, its
\* participants and a memory stayed.
C30_Witness ==
    /\ rowStep.what = "deleteRoomsByWorldId"
    /\ rooms # EmptyMap
    /\ \A r \in DOMAIN rooms : rooms[r].worldId # rowStep.id
    /\ \E r \in DOMAIN rooms : Has(participants, r)
    /\ Has(worlds, rowStep.id)
    /\ memoriesById # EmptyMap

\* ------------------------------------------------------------------------
\* Teardown (in-memory-store.test.ts 1476-1491; runtime-bridge.ts 209, 305,
\* 341-344)
\* ------------------------------------------------------------------------

\* How many ids the writers of SpecClear may draw from randomUUID().
MaxClearUuids == 2

\* getAgent: this.agents.get(agentId) ?? null.  getTask, getRoom, getWorld,
\* getCache and getParticipantUserState are the same expression over their maps.
getAgent(table, agentId) == IF Has(table, agentId) THEN table[agentId] ELSE NULLV

\* The collections of the store, in the order clear() names them.
Collections ==
    [agents |-> agents, entities |-> entities, rooms |-> rooms, worlds |-> worlds,
     components |-> components, componentsByEntity |-> componentsByEntity,
     memories |-> memories, memoriesById |-> memoriesById,
     participants |-> participants, participantState |-> participantState,
     relationships |-> relationships, tasks |-> tasks, logs |-> logs, cache |-> cache]

\* A teardown that forgets the index of memories by id.
clearKeepingIdMap(st) ==
    [agents |-> EmptyMap, entities |-> EmptyMap, rooms |-> EmptyMap, worlds |-> EmptyMap,
     components |-> <<>>, componentsByEntity |-> EmptyMap,
     memories |-> [t \in Tables |-> <<>>], memoriesById |-> st.memoriesById,
     participants |-> EmptyMap, participantState |-> EmptyMap,
     relationships |-> <<>>, tasks |-> EmptyMap, logs |-> <<>>, cache |-> EmptyMap]

\* clear(): every Map is cleared and both arrays are cut to length 0.  A table
\* of memories that is absent from the Map reads as the empty list.
clear(st) ==
    [agents |-> EmptyMap, entities |-> EmptyMap, rooms |-> EmptyMap, worlds |-> EmptyMap,
     components |-> <<>>, componentsByEntity |-> EmptyMap,
     memories |-> [t \in Tables |-> <<>>], memoriesById |-> EmptyMap,
     participants |-> EmptyMap, participantState |-> EmptyMap,
     relationships |-> <<>>, tasks |-> EmptyMap, logs |-> <<>>, cache |-> EmptyMap]

\* Every collection holds something.
StoreFull ==
    /\ \A c \in DOMAIN Collections \ {"memories"} :
          Collections[c] # EmptyMap /\ Collections[c] # <<>>
    /\ \A t \in Tables : memories[t] # <<>>

\* The shim's ways to the store's clear().
ClearVias == {"clear", "close", "clearAllAgentMemories", "stop"}

\* store.clear(): every collection of the store is emptied.
ClearStore ==
    LET st == clear(Collections)
    IN /\ agents' = st.agents
       /\ entities' = st.entities
       /\ rooms' = st.rooms
       /\ worlds' = st.worlds
       /\ components' = st.components
       /\ componentsByEntity' = st.componentsByEntity
       /\ memories' = st.memories
       /\ memoriesById' = st.memoriesById
       /\ participants' = st.participants
       /\ participantState' = st.participantState
       /\ relationships' = st.relationships
       /\ tasks' = st.tasks
       /\ logs' = st.logs
       /\ cache' = st.cache
       /\ createLog' = <<>>

\* store.clear(), called directly or as the synchronous body of the shim's
\* close and clearAllAgentMemories, or as the last statement of stop, after
\* the loop over the registered services.  The call is one synchronous run:
\* no other operation runs between its statements.  The ids handed out by
\* randomUUID() are not part of the store; the order of the tables restarts.
Clear(via) ==
    /\ ClearStore
    /\ lastCall' = [op |-> "clear", via |-> via, full |-> StoreFull]
    /\ UNCHANGED <<uuids, rowUuids, ensureCalls, rowStep, settingsVars, serviceVars,
                   eventVars, composeVars>>

\* setCache: this.cache.set(key, value); return true.
SetCache(key, value) ==
    /\ cache' = MapSet(cache, key, value)
    /\ UNCHANGED <<agents, tasks, components, componentsByEntity, relationships,
                   participantState, notRecords, lastCall>>

\* setParticipantUserState: the key `${roomId}:${entityId}` is the pair.
SetParticipantUserState(roomId, entityId, state) ==
    /\ participantState' = MapSet(participantState, <<roomId, entityId>>, state)
    /\ UNCHANGED <<agents, tasks, components, componentsByEntity, relationships, cache,
                   notRecords, lastCall>>

\* One writer for every collection, and the teardown by each of its ways.  The
\* callers write a room into a stored world, add a stored entity to a stored
\* room and set the state of a participant.
NextClear ==
    \/ CreateAgent(Record(1, "a"))
    \/ CreateTask(Record(1, "a"))
    \/ CreateRow("world", Row(1, "a", NoId))
    \/ Has(worlds, 1) /\ CreateRow("room", Row(1, "a", 1))
    \/ CreateRow("entity", Row(1, "a", NoId))
    \/ Has(rooms, 1) /\ Has(entities, 1) /\ AddParticipant(1, 1)
    \/ isRoomParticipant(participants, 1, 1) /\ SetParticipantUserState(1, 1, "FOLLOWED")
    \/ SetCache("k", "v")
    \/ uuids < MaxClearUuids /\ logs = <<>> /\ Log("t", 1)
    \/ components = <<>> /\ CreateComponent(Component(1, 1, "t", "a"))
    \/ uuids < MaxClearUuids /\ relationships = <<>> /\ CreateRelationship(1, 2)
    \/ \E t \in Tables :
          /\ memories[t] = <<>>
          /\ CreateMemory([id |-> IF t = "messages" THEN 1 ELSE 2, createdAt |-> 1,
                           roomId |-> "r1"], t, 1)
    \/ \E via \in ClearVias : Clear(via)

\* The step is a call of clear().
ClearStep == \E via \in ClearVias : Clear(via)

\* Every query of the store answers null or an empty result.
AllEmpty ==
    /\ \A c \in DOMAIN Collections \ {"memories"} :
          Collections[c] = EmptyMap \/ Collections[c] = <<>>
    /\ \A i \in RecordIds :
          /\ getAgent(agents, i) = NULLV
          /\ getAgent(tasks, i) = NULLV
          /\ getAgent(entities, i) = NULLV
          /\ getAgent(rooms, i) = NULLV
          /\ getAgent(worlds, i) = NULLV
          /\ getMemoryById(memoriesById, i) = NoMemory
          /\ getComponents(componentsByEntity, i) = <<>>
          /\ getComponent(components, componentKey(Component(1, i, "t", "a"))) = NoComponent
          /\ \A j \in RecordIds :
                /\ ~isRoomParticipant(participants, i, j)
                /\ getAgent(participantState, <<i, j>>) = NULLV
                /\ getRelationship(relationships, i, j) = NoRelationship
    /\ getAgent(cache, "k") = NULLV
    /\ \A t \in Tables :
          getMemories(memories, MemoryParams(t)) = <<>>
    /\ logs = <<>>

\* C22: the state a call of clear() leaves, whichever way it was reached, is
\* one in which every collection of the store is empty and every query
\* answers null or an empty result; the call is one step, so no state with
\* only some collections cleared exists between the store before and after.
C22_ClearEmptiesAll == [][ClearStep => AllEmpty']_vars

\* stop() has just cleared a store in which every collection held something.
C22_Witness ==
    /\ lastCall.op = "clear"
    /\ lastCall.via = "stop"
    /\ lastCall.full
    /\ AllEmpty

\* ------------------------------------------------------------------------
\* Adapted tools (action-to-tool.ts 18-88)
\* ------------------------------------------------------------------------

\* How many messages of tool calls the state cache may hold.
MaxToolCalls == 2

\* A value a callback throws: an Error with a message, or a bare string.
Thrown(isError, message) == [isError |-> isError, message |-> message]
NoThrown == Thrown(FALSE, "")

\* err instanceof Error ? err.message : String(err)
errorMessage(err) == err.message

\* What action.handler returns: undefined, or { success, text?, error?, data? }.
ActionResult(given, success, text, error, data) ==
    [given |-> given, success |-> success, text |-> text, error |-> error, data |-> data]
NoResult == ActionResult(FALSE, TRUE, "", "", "")

\* formatResult: the result's text, then the text of every response; with
\* neither, one line with the status and the error; details carry the action,
\* the data if any, and success (true unless the result says false).
formatResult(actionName, result, responses) ==
    LET texts == (IF result.text # "" THEN <<result.text>> ELSE <<>>)
                 \o SelectSeq(responses, LAMBDA r : r # "")
        status == IF result.success THEN "completed" ELSE "failed"
    IN [content |-> IF texts = <<>> THEN <<<<actionName, status, result.error>>>>
                    ELSE texts,
        details |-> [action |-> actionName, data |-> result.data,
                     success |-> result.success]]

\* The return of execute when validate answers false.
validationFailed(actionName) ==
    [content |-> <<<<actionName, "validation failed">>>>,
     details |-> [error |-> "validation_failed", action |-> actionName]]

\* How a handler settles: it returns a result after calling the callback with
\* some responses, or it throws.
Returns(result, responses) ==
    [throws |-> FALSE, result |-> result, responses |-> responses, err |-> NoThrown]
Throws(err) == [throws |-> TRUE, result |-> NoResult, responses |-> <<>>, err |-> err]

\* A catch that reports the handler's error as a failed result.
afterHandlerSwallowed(actionName, settled) ==
    IF settled.throws
    THEN [kind |-> "resolved", logged |-> <<<<actionName, errorMessage(settled.err)>>>>,
          value |-> formatResult(actionName,
                                 ActionResult(TRUE, FALSE, "", errorMessage(settled.err), ""),
                                 <<>>)]
    ELSE [kind |-> "resolved", logged |-> <<>>,
          value |-> formatResult(actionName, settled.result, settled.responses)]

\* try { result = await action.handler(...) } catch (err) { logger.error(...);
\* throw err; } return formatResult(action.name, result ?? undefined, responses)
afterHandler(actionName, settled) ==
    IF settled.throws
    THEN [kind |-> "rejected", logged |-> <<<<actionName, errorMessage(settled.err)>>>>,
          value |-> settled.err]
    ELSE [kind |-> "resolved", logged |-> <<>>,
          value |-> formatResult(actionName, settled.result, settled.responses)]

\* The frame of an execute call: where it is suspended, what its callbacks
\* did, what it logged and how it settled.
ToolCall(actionName, msgId) ==
    [op |-> "execute", pc |-> "validate", action |-> actionName, msgId |-> msgId,
     validate |-> "", invoked |-> FALSE, handler |-> Returns(NoResult, <<>>),
     logged |-> <<>>, kind |-> "pending", value |-> NoResult]

ToolRunning == lastCall.op = "execute" /\ lastCall.pc # "done"

\* execute(_toolCallId, args) up to its first await: the message is built
\* with a new id and action.validate is called.
Execute(actionName) ==
    /\ ~ToolRunning
    /\ lastCall' = ToolCall(actionName,
                            "t" \o ToString(Cardinality(DOMAIN stateCache) + 1))
    /\ UNCHANGED <<settingsVars, memoryVars, serviceVars, rowVars, eventVars, composeVars,
                   recordVars>>

\* action.validate settles.  False: execute returns the validation_failed
\* result.  A throw: execute rejects with it.  True: composeState(message) is
\* called, which runs up to its first await.
ExecuteValidated(answer, err) ==
    /\ ToolRunning
    /\ lastCall.pc = "validate"
    /\ CASE answer = "false" ->
              /\ lastCall' = [lastCall EXCEPT !.pc = "done", !.validate = answer,
                                 !.kind = "resolved",
                                 !.value = validationFailed(lastCall.action)]
              /\ UNCHANGED <<stateCache, composeCalls, returned>>
         [] answer = "throws" ->
              /\ lastCall' = [lastCall EXCEPT !.pc = "done", !.validate = answer,
                                 !.kind = "rejected", !.value = err]
              /\ UNCHANGED <<stateCache, composeCalls, returned>>
         [] OTHER ->
              /\ Cardinality(DOMAIN stateCache) < MaxToolCalls
              /\ lastCall' = [lastCall EXCEPT !.pc = "compose", !.validate = answer]
              /\ ComposeAdvance(1, [NoCompose EXCEPT !.pc = "run",
                                       !.msgId = lastCall.msgId, !.reg = providers,
                                       !.queue = Selected(providers, NoList)])
    /\ UNCHANGED <<providers, settingsVars, memoryVars, serviceVars, rowVars, eventVars,
                   recordVars>>

\* composeState has settled: with a State, and action.handler is called; or
\* with a rejection, which execute passes on.
ExecuteComposed ==
    /\ ToolRunning
    /\ lastCall.pc = "compose"
    /\ composeCalls[1].pc \in {"done", "rejected"}
    /\ lastCall' = IF composeCalls[1].pc = "done"
                   THEN [lastCall EXCEPT !.pc = "handler", !.invoked = TRUE]
                   ELSE [lastCall EXCEPT !.pc = "done", !.kind = "rejected",
                                         !.value = Thrown(TRUE, "provider")]
    /\ UNCHANGED <<settingsVars, memoryVars, serviceVars, rowVars, eventVars, composeVars,
                   recordVars>>

\* action.handler settles and execute with it.
ExecuteHandled(settled) ==
    LET after == afterHandler(lastCall.action, settled)
    IN /\ ToolRunning
       /\ lastCall.pc = "handler"
       /\ lastCall' = [lastCall EXCEPT !.pc = "done", !.handler = settled,
                          !.logged = after.logged, !.kind = after.kind,
                          !.value = after.value]
       /\ UNCHANGED <<settingsVars, memoryVars, serviceVars, rowVars, eventVars,
                      composeVars, recordVars>>

\* What the handlers of the actions do.
HandlerOutcomes ==
    {Returns(r, rs) : r \in {NoResult, ActionResult(TRUE, TRUE, "ok", "", ""),
                             ActionResult(TRUE, TRUE, "", "", "d"),
                             ActionResult(TRUE, FALSE, "", "bad", "")},
                      rs \in {<<>>, <<"r1">>, <<"", "r2">>}}
    \cup {Throws(Thrown(TRUE, "Handler exploded")), Throws(Thrown(FALSE, "boom"))}

NextTools ==
    \/ \E p \in {P1, P2} : p \notin Range(providers) /\ RegisterProvider(p)
    \/ ComposeResume(1)
    \/ \E a \in {"A1", "A2"} : Execute(a)
    \/ \E answer \in {"true", "false", "throws"} :
          ExecuteValidated(answer, Thrown(TRUE, "validate"))
    \/ ExecuteComposed
    \/ \E settled \in HandlerOutcomes : ExecuteHandled(settled)

\* C24: an execute whose action handler threw rejects with the very value the
\* handler threw, and an execute whose validate answered false returns the
\* validation_failed result and has not invoked the handler.
C24_HandlerErrorsPropagate ==
    (lastCall.op = "execute" /\ lastCall.pc = "done") =>
        /\ lastCall.handler.throws =>
              lastCall.kind = "rejected" /\ lastCall.value = lastCall.handler.err
        /\ lastCall.validate = "false" =>
              /\ lastCall.kind = "resolved"
              /\ lastCall.value.details.error = "validation_failed"
              /\ ~lastCall.invoked

\* An execute has rejected with the Error its handler threw, after validate
\* answered true and composeState ran a provider.
C24_Witness ==
    /\ lastCall.op = "execute"
    /\ lastCall.pc = "done"
    /\ lastCall.invoked
    /\ lastCall.handler = Throws(Thrown(TRUE, "Handler exploded"))
    /\ lastCall.kind = "rejected"
    /\ lastCall.value = Thrown(TRUE, "Handler exploded")
    /\ lastCall.logged # <<>>
    /\ composeCalls[1].ran # <<>>

\* ------------------------------------------------------------------------
\* Registration of the adapter with the host (index.ts 26-117)
\* ------------------------------------------------------------------------

\* How many plugins a configuration names.
MaxPlugins == 2

\* A plugin as far as registerElizaPlugin reads it: its name, whether it has
\* an init, its actions (by name) and its providers.  The plugins here have no
\* services, evaluators, routes or events.
Plugin(name, init, actions, provs) ==
    [name |-> name, init |-> init, actions |-> actions, providers |-> provs]
NoPlugin == Plugin("", FALSE, <<>>, <<>>)

\* `eliza_${name.toLowerCase().replace(/[^a-z0-9_]/g, "_")}` (action-to-tool.ts 28)
toolName(name) ==
    CASE name = "GET_PRICE" -> "eliza_get_price"
      [] name = "Send.Tx" -> "eliza_send_tx"
      [] OTHER -> "eliza_" \o name

\* The frame of a register call: the configured specifiers, the index of the
\* one in work, the loaded plugin, the status object, what the host was given
\* (tools, services, hooks), what the bridge was given (actions), what was
\* logged as an error, which specifiers failed, and how the call settled.
RegisterCall(plugins) ==
    [op |-> "register", pc |-> "load", plugins |-> plugins, i |-> 1, plugin |-> NoPlugin,
     status |-> [plugins |-> <<>>, errors |-> <<>>, totals |-> [tools |-> 0, hooks |-> 0]],
     tools |-> <<>>, hostServices |-> <<>>, hooks |-> 0, actions |-> <<>>,
     logged |-> <<>>, failed |-> <<>>, kind |-> "pending", value |-> NoThrown]

\* The end of the loop body: the next specifier is imported, or, after the
\* last one, the status tool and the lifecycle service are registered and
\* register returns (106-116).
nextPlugin(call) ==
    IF call.i < Len(call.plugins)
    THEN [call EXCEPT !.i = @ + 1, !.pc = "load", !.plugin = NoPlugin]
    ELSE [call EXCEPT !.pc = "done", !.kind = "resolved", !.plugin = NoPlugin,
                      !.tools = Append(@, "eliza_adapter_status"),
                      !.hostServices = Append(@, "eliza-adapter-lifecycle")]

\* A catch that passes the error on to the caller of register.
catchLoadErrorRethrow(call, err) ==
    [call EXCEPT !.pc = "done", !.kind = "rejected", !.value = err]

\* catch (err) { status.errors.push({ specifier, error, timestamp });
\* logger.error(...) } and on with the loop
catchLoadError(call, err) ==
    nextPlugin([call EXCEPT
        !.status.errors = Append(@, [specifier |-> call.plugins[call.i],
                                     error |-> errorMessage(err)]),
        !.logged = Append(@, <<call.plugins[call.i], errorMessage(err)>>)])

\* registerElizaPlugin after init (54-66) and the rest of the try block
\* (92-97): the actions become tools of the host and actions of the bridge,
\* the providers hooks of the host; the record is pushed and the totals grow.
registerElizaPlugin(call, plugin) ==
    LET names == [k \in 1..Len(plugin.actions) |-> toolName(plugin.actions[k])]
        r == [pluginName |-> plugin.name, toolCount |-> Len(plugin.actions),
              hookCount |-> Len(plugin.providers), serviceCount |-> 0, routeCount |-> 0]
    IN nextPlugin([call EXCEPT
           !.tools = @ \o names,
           !.actions = @ \o plugin.actions,
           !.hooks = @ + Len(plugin.providers),
           !.status.plugins = Append(@, r),
           !.status.totals.tools = @ + r.toolCount,
           !.status.totals.hooks = @ + r.hookCount])

RegisterRunning == lastCall.op = "register" /\ lastCall.pc # "done"

\* register(api) up to the import of the first specifier: the configuration
\* is parsed (a configuration parseAdapterConfig accepts names at least one
\* plugin), the bridge is built and initialized, the status object is empty.
Register(plugins) ==
    /\ lastCall = NoCall
    /\ providers = <<>>
    /\ plugins # <<>>
    /\ lastCall' = RegisterCall(plugins)
    /\ UNCHANGED <<settingsVars, memoryVars, serviceVars, rowVars, eventVars, composeVars,
                   recordVars>>

\* import(specifier) settles in loadElizaPlugin: it fails, or the module has
\* no plugin export (both are caught), or a plugin is found and
\* registerElizaPlugin runs up to the await of its init, or to its end if it
\* has none.
RegisterLoaded(loaded, plugin, err) ==
    /\ RegisterRunning
    /\ lastCall.pc = "load"
    /\ IF ~loaded
       THEN /\ lastCall' = catchLoadError([lastCall EXCEPT !.failed = Append(@, TRUE)], err)
            /\ UNCHANGED providers
       ELSE IF plugin.init
       THEN /\ lastCall' = [lastCall EXCEPT !.pc = "init", !.plugin = plugin]
            /\ UNCHANGED providers
       ELSE /\ lastCall' = registerElizaPlugin([lastCall EXCEPT !.failed = Append(@, FALSE)],
                                               plugin)
            /\ providers' = providers \o plugin.providers
    /\ UNCHANGED <<stateCache, composeCalls, returned, settingsVars, memoryVars,
                   serviceVars, rowVars, eventVars, recordVars>>

\* plugin.init(settings, bridge) settles: a throw is caught like a failed
\* load; otherwise the plugin's parts are registered.
RegisterInited(threw, err) ==
    /\ RegisterRunning
    /\ lastCall.pc = "init"
    /\ IF threw
       THEN /\ lastCall' = catchLoadError([lastCall EXCEPT !.failed = Append(@, TRUE)], err)
            /\ UNCHANGED providers
       ELSE /\ lastCall' = registerElizaPlugin([lastCall EXCEPT !.failed = Append(@, FALSE)],
                                               lastCall.plugin)
            /\ providers' = providers \o lastCall.plugin.providers
    /\ UNCHANGED <<stateCache, composeCalls, returned, settingsVars, memoryVars,
                   serviceVars, rowVars, eventVars, recordVars>>

\* The plugins the specifiers may resolve to.
PluginPool ==
    {Plugin("p1", FALSE, <<"GET_PRICE">>, <<>>),
     Plugin("p2", TRUE, <<"Send.Tx">>, <<P1>>),
     Plugin("p3", TRUE, <<>>, <<P2>>)}

\* The configured lists of specifiers.
PluginLists ==
    UNION {[1..n -> {"a", "b"}] : n \in 1..MaxPlugins}

NextRegister ==
    \/ \E plugins \in PluginLists : Register(plugins)
    \/ \E err \in {Thrown(TRUE, "Cannot find module"), Thrown(TRUE, "no valid export")} :
          RegisterLoaded(FALSE, NoPlugin, err)
    \/ \E plugin \in PluginPool : RegisterLoaded(TRUE, plugin, NoThrown)
    \/ \E threw \in BOOLEAN :
          RegisterInited(threw, IF threw THEN Thrown(FALSE, "init failed") ELSE NoThrown)

\* The specifiers of a list at the positions a list of flags marks.
Marked(list, flags, flag) ==
    LET F[k \in 0..Len(list)] ==
            IF k = 0 THEN <<>>
            ELSE IF k <= Len(flags) /\ flags[k] = flag THEN Append(F[k - 1], list[k])
            ELSE F[k - 1]
    IN F[Len(list)]

NextCache ==
    \/ \E p \in {P1, P2} : p \notin Range(providers) /\ RegisterProvider(p)
    \/ \E msgId \in MessageIds(returned), skipCache \in BOOLEAN :
          ComposeState(1, msgId, NoList, skipCache)
    \/ ComposeResume(1)
    \/ SetSetting("K1", Str("v"))
    \/ CreateAgent(Record(1, "a"))
    \/ Clear("stop")

\* The call of slot c has returned in this step.
Completes(c) == composeCalls'[c] # composeCalls[c] /\ composeCalls'[c].pc = "done"

\* C31: a step changes the state cache only if in it a composeState that
\* found no cached State returns for a message with an id, and the cache then
\* maps that id to the State returned and is otherwise as before; every such
\* return sets the entry, with skipCache too; a return from the cache, a return
\* for a message without id and every other operation leave the cache as it is.
C31_CacheChangesOnlyOnCompose ==
    [][/\ stateCache' # stateCache =>
             \E c \in ComposeSlots :
                /\ Completes(c)
                /\ ~composeCalls'[c].hit
                /\ composeCalls'[c].msgId # NoMsg
                /\ stateCache' = MapSet(stateCache, composeCalls'[c].msgId,
                                        composeCalls'[c].result)
       /\ \A c \in ComposeSlots :
             Completes(c) =>
                IF ~composeCalls'[c].hit /\ composeCalls'[c].msgId # NoMsg
                THEN /\ Has(stateCache', composeCalls'[c].msgId)
                     /\ stateCache'[composeCalls'[c].msgId] = composeCalls'[c].result
                ELSE stateCache' = stateCache]_vars

\* A composeState with skipCache has returned a State other than the one
\* cached for its message before, and the cache now holds the new one.
C31_Witness ==
    LET call == composeCalls[1]
    IN /\ call.pc = "done"
       /\ call.skipCache
       /\ call.prior
       /\ call.result # call.priorState
       /\ stateCache[call.msgId] = call.result
       /\ lastCall.op = "clear"

\* ------------------------------------------------------------------------
\* The order of the providers within one composeState
\* ------------------------------------------------------------------------

\* The place of a provider in the registry the call read.
RegIndex(call, p) == CHOOSE i \in 1..Len(call.reg) : call.reg[i] = p

\* The provider is one of the call's base providers.
IsBase(call, p) ==
    IF call.includeList.given THEN p.name \in call.includeList.names
    ELSE ~p.private /\ ~p.dynamic

\* The invoked providers are base providers in registration order followed
\* by always-run providers, not base, in registration order.
BaseThenAlwaysRun(call) ==
    \E k \in 0..Len(call.ran) :
       /\ \A i \in 1..k : IsBase(call, call.ran[i])
       /\ \A i \in (k + 1)..Len(call.ran) :
             /\ ~IsBase(call, call.ran[i])
             /\ call.ran[i].alwaysRun
             /\ ~call.ran[i].private
       /\ \A i, j \in 1..Len(call.ran) :
             (i < j /\ (j <= k \/ i > k)) =>
                RegIndex(call, call.ran[i]) < RegIndex(call, call.ran[j])

\* C32: within one composeState a step invokes at most one provider, and a
\* provider is invoked only by the step that starts the call or by the step in
\* which the get of the provider invoked before it settles, so no two gets of
\* one call are pending together; the providers invoked so far are base
\* providers in registration order, then always-run providers in registration
\* order.
C32_ProvidersOneAfterAnother ==
    [][\A c \in ComposeSlots :
          LET before == composeCalls[c]
              after == composeCalls'[c]
          IN after # before =>
               /\ BaseThenAlwaysRun(after)
               /\ IF before.pc = "awaiting"
                  THEN /\ IsPrefix(before.ran, after.ran)
                       /\ Len(after.ran) <= Len(before.ran) + 1
                  ELSE Len(after.ran) <= 1
               /\ (after.pc = "awaiting") => after.ran # <<>>]_vars

\* A composeState has returned that invoked the base provider P1 and then the
\* always-run provider P2, which was registered before P1.
C32_Witness ==
    LET call == composeCalls[1]
    IN /\ call.pc = "done"
       /\ call.reg = <<P2, P1>>
       /\ call.ran = <<P1, P2>>
       /\ call.textParts = <<"P1", "P2">>

\* ------------------------------------------------------------------------
\* A registry that holds a provider more than once
\* ------------------------------------------------------------------------

\* registerProvider with any provider, registered or not, and composeState
\* with and without an include-list.
NextRegistry ==
    \/ \E p \in {P1, P2, P4} : RegisterProvider(p)
    \/ \E msgId \in {NoMsg, "m1"},
          includeList \in {NoList, [given |-> TRUE, names |-> {"P1", "P4"}]} :
          ComposeState(1, msgId, includeList, FALSE)
    \/ ComposeResume(1)

NoRepeats(list) == \A i, j \in 1..Len(list) : list[i] = list[j] => i = j

\* C33: within one composeState no provider is invoked more than once,
\* whatever the registry holds and whatever the include-list is.
C33_NoProviderTwice ==
    \A c \in ComposeSlots : NoRepeats(composeCalls[c].ran)

\* A composeState invokes a provider twice only if the registry it read held
\* that provider twice.
C33_OncePerRegistration ==
    \A c \in ComposeSlots :
       LET call == composeCalls[c]
       IN /\ NoRepeats(call.reg) => NoRepeats(call.ran)
          /\ \A p \in Range(call.ran) :
                Cardinality({i \in 1..Len(call.ran) : call.ran[i] = p})
                   <= Cardinality({i \in 1..Len(call.reg) : call.reg[i] = p})

\* ------------------------------------------------------------------------
\* The State composeState builds from the results of the providers
\* (runtime-bridge.ts 134-157)
\* ------------------------------------------------------------------------

\* How many providers one composeState invokes here.
MaxOutcomes == 2

\* Array.prototype.join
RECURSIVE join(_, _)
join(parts, sep) ==
    IF parts = <<>> THEN ""
    ELSE IF Len(parts) = 1 THEN parts[1]
    ELSE parts[1] \o sep \o join(Tail(parts), sep)

\* An Object.assign under which a key keeps its first value.
ObjectAssignKeepingFirst(target, source) ==
    [k \in (DOMAIN target) \cup (DOMAIN source) |->
        IF k \in DOMAIN target THEN target[k] ELSE source[k]]

\* Object.assign(target, source): the keys of source are written over target.
ObjectAssign(target, source) ==
    [k \in (DOMAIN target) \cup (DOMAIN source) |->
        IF k \in DOMAIN source THEN source[k] ELSE target[k]]

\* How a provider's get settles: it throws, it resolves with null, or with a
\* result { text, values, data } (an absent text is "", an absent map is empty).
ProviderResult(text, vals, dat) ==
    [kind |-> "result", text |-> text, values |-> vals, data |-> dat]
GetThrew == [kind |-> "throw", text |-> "", values |-> EmptyMap, data |-> EmptyMap]
GetNull == [kind |-> "null", text |-> "", values |-> EmptyMap, data |-> EmptyMap]

\* const values = { agentName: character.name ?? "Eliza", actionNames:
\* actions.map(name).join(", "), providers: providers.map(name).join(", ") };
\* data = {}; textParts = []
composeStart(agentName, actionNames, providerNames) ==
    [values |-> [k \in {"agentName", "actionNames", "providers"} |->
                    CASE k = "agentName" -> IF agentName = "" THEN "Eliza" ELSE agentName
                      [] k = "actionNames" -> join(actionNames, ", ")
                      [] OTHER -> join(providerNames, ", ")],
     data |-> EmptyMap,
     textParts |-> <<>>]

\* The body of the loop after the get has settled: a throw is caught and the
\* provider skipped, a null result skipped, a text pushed if it is not empty,
\* values and data assigned over what was gathered.
mergeResult(acc, result) ==
    IF result.kind # "result" THEN acc
    ELSE [values |-> ObjectAssign(acc.values, result.values),
          data |-> ObjectAssign(acc.data, result.data),
          textParts |-> IF result.text # "" THEN Append(acc.textParts, result.text)
                        ELSE acc.textParts]

\* The loop over the settled gets, in invocation order.
RECURSIVE composeLoop(_, _)
composeLoop(acc, results) ==
    IF results = <<>> THEN acc
    ELSE composeLoop(mergeResult(acc, Head(results)), Tail(results))

\* { values, data, text: textParts.join("\n") }
composedState(acc) ==
    [values |-> acc.values, data |-> acc.data, text |-> join(acc.textParts, "\n")]

\* What the gets of the invoked providers may settle with.
ResultPool ==
    {GetThrew, GetNull,
     ProviderResult("Balance: 10", MapSet(EmptyMap, "x", "1"), MapSet(EmptyMap, "d", "1")),
     ProviderResult("", MapSet(EmptyMap, "x", "2"), EmptyMap),
     ProviderResult("second", EmptyMap, MapSet(EmptyMap, "d", "2")),
     ProviderResult("", MapSet(EmptyMap, "agentName", "Mallory"), EmptyMap)}

\* A composeState that finds no cached State, given the names the registry
\* holds and what the gets of the providers it invokes settle with, in
\* invocation order.
ComposeResults(agentName, actionNames, providerNames, results) ==
    /\ lastCall = NoCall
    /\ lastCall' = [op |-> "composeResults", agentName |-> agentName,
                    actionNames |-> actionNames, providerNames |-> providerNames,
                    results |-> results,
                    state |-> composedState(
                                 composeLoop(composeStart(agentName, actionNames,
                                                          providerNames), results))]
    /\ UNCHANGED <<settingsVars, memoryVars, serviceVars, rowVars, eventVars, composeVars,
                   recordVars>>

NextMerge ==
    \E agentName \in {"", "TestAgent"}, actionNames \in {<<>>, <<"A1", "A2">>},
       providerNames \in {<<"P1">>, <<"P1", "P2">>},
       results \in UNION {[1..n -> ResultPool] : n \in 0..MaxOutcomes} :
       ComposeResults(agentName, actionNames, providerNames, results)

\* The texts of the results that have one, in invocation order.
TextsOf(results) ==
    LET with == SelectSeq(results, LAMBDA r : r.kind = "result" /\ r.text # "")
    IN [i \in 1..Len(with) |-> with[i].text]

\* The texts with a newline between each two, built from the last one back.
Lines(texts) ==
    LET F[k \in 0..Len(texts)] ==
            IF k = 0 THEN ""
            ELSE IF k = 1 THEN texts[Len(texts)]
            ELSE texts[Len(texts) - k + 1] \o "\n" \o F[k - 1]
    IN F[Len(texts)]

\* The results that write the key to the field (values or data).
Writers(results, field, key) ==
    {i \in 1..Len(results) : results[i].kind = "result" /\ key \in DOMAIN results[i][field]}

\* C34: State.text is the non-empty texts of the results joined with
\* newlines in invocation order, and a key of values (or data) that several
\* results write has the value of the result invoked last among them; a key no
\* result writes keeps its initial value.
C34_MergeInInvocationOrder ==
    lastCall.op = "composeResults" =>
       LET results == lastCall.results
           start == composeStart(lastCall.agentName, lastCall.actionNames,
                                 lastCall.providerNames)
       IN /\ lastCall.state.text = Lines(TextsOf(results))
          /\ \A field \in {"values", "data"} :
                /\ DOMAIN lastCall.state[field]
                   = (DOMAIN start[field])
                     \cup UNION {DOMAIN results[i][field] :
                                   i \in {j \in 1..Len(results) : results[j].kind = "result"}}
                /\ \A key \in DOMAIN lastCall.state[field] :
                      LET w == Writers(results, field, key)
                      IN lastCall.state[field][key]
                         = IF w = {} THEN start[field][key]
                           ELSE results[CHOOSE i \in w : \A j \in w : j <= i][field][key]

\* Two results wrote x, the second without a text, and the State has the
\* second's x and the first's text.
C34_Witness ==
    /\ lastCall.op = "composeResults"
    /\ Len(lastCall.results) = 2
    /\ lastCall.results[1].values = MapSet(EmptyMap, "x", "1")
    /\ lastCall.results[2].values = MapSet(EmptyMap, "x", "2")
    /\ lastCall.state.values["x"] = "2"
    /\ lastCall.state.text = "Balance: 10"

\* C35: every State composeState computes has values.agentName equal to the
\* configured agent name and values.actionNames and values.providers equal to
\* the comma-joined names of the registered actions and providers, whatever
\* the gets of the providers settle with.
C35_NamesAlwaysInValues ==
    lastCall.op = "composeResults" =>
       /\ lastCall.state.values["agentName"]
          = (IF lastCall.agentName = "" THEN "Eliza" ELSE lastCall.agentName)
       /\ lastCall.state.values["actionNames"] = join(lastCall.actionNames, ", ")
       /\ lastCall.state.values["providers"] = join(lastCall.providerNames, ", ")

\* The three keys are in values, with the value the call gave them unless a
\* result wrote the key.
C35_UnlessAResultWritesThem ==
    lastCall.op = "composeResults" =>
       \A key \in {"agentName", "actionNames", "providers"} :
          /\ key \in DOMAIN lastCall.state.values
          /\ Writers(lastCall.results, "values", key) = {} =>
                lastCall.state.values[key]
                = composeStart(lastCall.agentName, lastCall.actionNames,
                               lastCall.providerNames).values[key]

\* ------------------------------------------------------------------------
\* Two emitEvent calls in flight together
\* ------------------------------------------------------------------------

\* Two emitEvent calls for one name, which may overlap, among registrations
\* of handlers for it.
NextEmitTwo ==
    \/ \E h \in Handlers : RegisterEvent("e1", h)
    \/ \E c \in EmitSlots : EmitEvent(c, [array |-> FALSE, names |-> <<"e1">>])
    \/ \E c \in EmitSlots, outcome \in {"fulfilled", "rejected"} : EmitResume(c, outcome)

\* The call of the slot was started while the other call awaited a handler,
\* and both have returned.
BothReturned(c) ==
    /\ emitCalls[c].during # {}
    /\ \A d \in EmitSlots : emitCalls[d].pc \in {"fulfilled", "rejected"}

\* C36 as stated: of two emitEvent calls for one name that were in flight
\* together, each has invoked every handler registered for the name exactly
\* once, in registration order.
C36_EveryHandlerOncePerCall ==
    \A c \in EmitSlots :
       BothReturned(c) =>
          \A d \in EmitSlots :
             /\ IsPrefix(emitCalls[d].start[1], Ran(emitCalls[d], 1))
             /\ IsPrefix(Ran(emitCalls[d], 1), handlersOf(events, "e1"))

\* C36: of two emitEvent calls for one name that are in flight together, each
\* starts the handlers of the name in registration order, each registration
\* at most once, whatever the other call does; a call that fulfils has invoked
\* every handler registered when it started exactly once, and a call stops
\* short of that only by rejecting with the handler it invoked last.
C36_OrderedPerCall ==
    \A c \in EmitSlots :
       LET call == emitCalls[c]
       IN call.pc # "idle" =>
            /\ IsPrefix(Ran(call, 1), handlersOf(events, "e1"))
            /\ call.pc = "fulfilled" => IsPrefix(call.start[1], Ran(call, 1))
            /\ call.pc = "rejected" => call.log[Len(call.log)][1] = "rejected"
            /\ Len(call.log) <= 2 * Len(handlersOf(events, "e1"))

\* Both calls have fulfilled after each invoked h1 and then h2; the second
\* was started while the first awaited a handler.
C36_Witness ==
    /\ emitCalls[2].during = {1}
    /\ \A c \in EmitSlots :
          /\ emitCalls[c].pc = "fulfilled"
          /\ Ran(emitCalls[c], 1) = <<"h1", "h2">>
          /\ emitCalls[c].start[1] = <<"h1", "h2">>

\* ------------------------------------------------------------------------
\* Two composeState calls in flight together
\* ------------------------------------------------------------------------

\* Two composeState calls, one per slot, for the same or for different
\* messages, which may overlap, among registrations of providers.
NextComposeTwo ==
    \/ \E p \in {P1, P2, P4} : p \notin Range(providers) /\ RegisterProvider(p)
    \/ \E c \in ComposeSlots, msgId \in {"m1", "m2"}, skipCache \in BOOLEAN :
          /\ composeCalls[c].pc = "idle"
          /\ ComposeState(c, msgId, NoList, skipCache)
    \/ \E c \in ComposeSlots : ComposeResume(c)

\* C37: when a composeState is called for the message id of another call
\* that is awaiting a provider, neither with skipCache, it finds no cached
\* State; each of the two invokes the providers selected from the registry as
\* it was at its call and returns the State made of the results of its own
\* invocations; and the return of the one that returns last leaves its State in
\* the cache under the id.
C37_OverlappingCalls ==
    [][\A c \in ComposeSlots :
          \A d \in composeCalls'[c].during :
             LET second == composeCalls'[c]
                 first == composeCalls'[d]
                 Composed(call) ==
                     call.pc = "done" =>
                        /\ call.ran = Selected(call.reg, call.includeList)
                        /\ call.result = State(call.textParts)
             IN (~second.skipCache /\ ~first.skipCache) =>
                  /\ ~second.hit /\ ~first.hit
                  /\ first.msgId = second.msgId
                  /\ Composed(first) /\ Composed(second)
                  /\ (Completes(c) /\ first.pc = "done")
                        => stateCache'[second.msgId] = second.result
                  /\ (Completes(d) /\ second.pc = "done")
                        => stateCache'[second.msgId] = first.result]_vars

\* The second call, started for the same id while the first awaited P1 and
\* after P2 was registered, has returned a State with P2's text; the first
\* returned after it, and the cache holds the first call's State.
C37_Witness ==
    /\ composeCalls[2].during = {1}
    /\ ~composeCalls[1].skipCache /\ ~composeCalls[2].skipCache
    /\ composeCalls[1].pc = "done" /\ composeCalls[2].pc = "done"
    /\ composeCalls[1].result = State(<<"P1">>)
    /\ composeCalls[2].result = State(<<"P1", "P2">>)
    /\ stateCache[composeCalls[1].msgId] = composeCalls[1].result

\* ------------------------------------------------------------------------
\* Shutdown: the adapted services and the lifecycle service
\* ------------------------------------------------------------------------

NoInstance == "none"

\* What the variables above do not hold: the adapted services the host has
\* been given, each with the instance it started, the instance its closure
\* holds and whether the host has called its stop; how often each instance's stop() has been invoked; and
\* where the shutdown stands.
Lifecycle ==
    IF lastCall.op = "lifecycle" THEN lastCall
    ELSE [op |-> "lifecycle", adapted |-> <<>>, stops |-> [i \in Instances |-> 0],
          pc |-> "up", cur |-> 0, left |-> <<>>]

\* An instance that is a new object: no list of the registry holds it.
FreshInstance(instance) == \A t \in ServiceTypes : instance \notin Range(services[t])

\* What the shutdown steps leave alone, the store apart.
notStopped == <<uuids, rowUuids, ensureCalls, rowStep, settingsVars, serviceVars,
                eventVars, composeVars>>

storeVars == <<agents, entities, rooms, worlds, components, componentsByEntity,
               memories, memoriesById, participants, participantState, relationships,
               tasks, logs, cache, createLog>>

\* if (instance) await instance.stop(): one more invocation of the
\* instance's stop, unless the closure holds none
adaptedStopCount(stops, instance) ==
    IF instance # NoInstance THEN [stops EXCEPT ![instance] = @ + 1] ELSE stops

\* registerElizaPlugin's loop over plugin.services, for one service class:
\* adaptService, then adapted.start, which after serviceClass.start(bridge)
\* has fulfilled keeps the instance in its closure and injects it into the
\* registry, then api.registerService with adapted.stop as the stop.
AdaptedStart(type, instance) ==
    /\ Lifecycle.pc = "up"
    /\ FreshInstance(instance)
    /\ Len(services[type]) < MaxInstances
    /\ injectServiceEffect(type, instance)
    /\ lastCall' = [Lifecycle EXCEPT !.adapted =
           Append(@, [type |-> type, instance |-> instance, started |-> instance,
                      called |-> FALSE])]
    /\ UNCHANGED <<starting, loadCalls, settingsVars, memoryVars, rowVars, eventVars,
                   composeVars, recordVars>>

\* The host calls the stop of the k-th adapted service: up to the await of
\* instance.stop().
AdaptedStop(k) ==
    LET life == Lifecycle
    IN /\ life.pc \in {"up", "hostStopping"}
       /\ k \in 1..Len(life.adapted)
       /\ ~life.adapted[k].called
       /\ lastCall' = [life EXCEPT
              !.pc = "inStop", !.cur = k,
              !.adapted[k].called = TRUE,
              !.stops = adaptedStopCount(@, life.adapted[k].instance)]
       /\ UNCHANGED <<storeVars, notStopped>>

\* instance.stop() has fulfilled: instance = null, and the adapted stop returns.
AdaptedStopReturns ==
    LET life == Lifecycle
    IN /\ life.pc = "inStop"
       /\ lastCall' = [life EXCEPT !.pc = "hostStopping", !.cur = 0,
                                   !.adapted[life.cur].instance = NoInstance]
       /\ UNCHANGED <<storeVars, notStopped>>

\* The loop of the shim's stop over what is left of the registry's instances:
\* the next instance's stop is invoked and awaited, or the loop is over and
\* the store is cleared.
stopLoop(life, left) ==
    IF left = <<>>
    THEN /\ ClearStore
         /\ lastCall' = [life EXCEPT !.pc = "stopped", !.left = <<>>]
    ELSE /\ lastCall' = [life EXCEPT !.pc = "bridgeStopping", !.left = Tail(left),
                                     !.stops[Head(left)] = @ + 1]
         /\ UNCHANGED storeVars

\* The orders in which a Map of the types yields them: the order in which the
\* types were first set, which the registry above does not keep.
TypeOrders == {<<"wallet", "chat">>, <<"chat", "wallet">>}

\* The host, after the adapted services, calls the stop of the lifecycle
\* service, which is the shim's stop: up to its first await.
BridgeStop(order) ==
    LET life == Lifecycle
    IN /\ life.pc \in {"up", "hostStopping"}
       /\ \A k \in 1..Len(life.adapted) : life.adapted[k].called
       /\ stopLoop(life, services[order[1]] \o services[order[2]])
       /\ UNCHANGED notStopped

\* The shim's stop resumes after an instance's stop() has fulfilled.
BridgeStopResume ==
    LET life == Lifecycle
    IN /\ life.pc = "bridgeStopping"
       /\ stopLoop(life, life.left)
       /\ UNCHANGED notStopped

\* Services started through the adapter or injected directly, then the
\* shutdown; a memory is created so that the store has something to clear.
NextShutdown ==
    \/ \E t \in ServiceTypes, i \in Instances : AdaptedStart(t, i)
    \/ \E t \in ServiceTypes, i \in Instances :
          /\ Lifecycle.pc = "up" /\ FreshInstance(i)
          /\ InjectService(t, i)
    \/ \E k \in 1..MaxInstances * 2 : AdaptedStop(k)
    \/ AdaptedStopReturns
    \/ \E order \in TypeOrders : BridgeStop(order)
    \/ BridgeStopResume
    \/ \E e \in {"K1"}, v \in {Str("v")} : Lifecycle.pc = "up" /\ SetCache(e, v)

\* C39: during shutdown, where the host stops each adapted service and then
\* the lifecycle service calls the shim's stop, the stop() of each instance
\* started through an adapted service is invoked at most once.
C39_StopAtMostOnce ==
    \A k \in 1..Len(Lifecycle.adapted) :
        Lifecycle.stops[Lifecycle.adapted[k].started] <= 1

\* What does hold: an instance's stop() is invoked at most once by the
\* adapted service that started it and once for each place it has in the
\* registry; an instance injected directly is stopped once.
C39_OncePerHolder ==
    LET life == Lifecycle
        Places(i) == Cardinality({<<t, n>> \in ServiceTypes \X (1..MaxInstances) :
                                     n <= Len(services[t]) /\ services[t][n] = i})
        Adapters(i) == Cardinality({k \in 1..Len(life.adapted) :
                                       life.adapted[k].called /\ life.adapted[k].started = i})
    IN \A i \in Instances :
          /\ life.stops[i] <= Places(i) + Adapters(i)
          /\ life.pc = "stopped" => life.stops[i] = Places(i) + Adapters(i)

\* ------------------------------------------------------------------------
\* Specifications
\* ------------------------------------------------------------------------

\* The shim as constructed from any configuration, in any environment.
Init ==
    /\ \E cfg \in Configs : InitSettings(cfg)
    /\ InitMemory
    /\ InitServices
    /\ InitRows
    /\ InitEvents
    /\ InitCompose
    /\ InitRecords
    /\ lastCall = NoCall

\* The shim as constructed from the default configuration.
InitDefault ==
    /\ InitSettingsDefault
    /\ InitMemory
    /\ InitServices
    /\ InitRows
    /\ InitEvents
    /\ InitCompose
    /\ InitRecords
    /\ lastCall = NoCall

Next == NextSettings \/ NextMemory \/ NextServices \/ NextRows \/ NextConnections
        \/ NextEvents \/ NextCompose \/ NextQuery \/ NextSearch \/ NextLogs \/ NextReads \/ NextParticipants
        \/ RedactSecrets \/ NextNotImplemented \/ NextUpdates
        \/ NextMemoryWrites \/ NextComponents \/ NextRowWrites \/ NextClear
        \/ NextTools \/ NextRegister \/ NextCache
        \/ NextRegistry \/ NextMerge \/ NextEmitTwo
        \/ NextComposeTwo \/ NextEnsureTwo \/ NextShutdown

Spec == Init /\ [][Next]_vars

SpecSettings == Init /\ [][NextSettings]_vars

SpecMemory == InitDefault /\ [][NextMemory]_vars

SpecServices == InitDefault /\ [][NextServices]_vars

SpecRows == InitDefault /\ [][NextRows]_vars

SpecConnections == InitDefault /\ [][NextConnections]_vars

SpecEvents == InitDefault /\ [][NextEvents]_vars

SpecCompose == InitDefault /\ [][NextCompose]_vars

SpecQuery == InitQuery /\ [][NextQuery]_vars

SpecSearch == InitSearch /\ [][NextSearch]_vars

SpecLogs == InitDefault /\ [][NextLogs]_vars

SpecParticipants == InitDefault /\ [][NextParticipants]_vars

SpecRedact == InitRedact /\ [][RedactSecrets]_vars

SpecNotImplemented == InitDefault /\ [][NextNotImplemented]_vars

SpecUpdates == InitDefault /\ [][NextUpdates]_vars

SpecMemoryWrites == InitDefault /\ [][NextMemoryWrites]_vars

SpecComponents == InitDefault /\ [][NextComponents]_vars

SpecRowWrites == InitDefault /\ [][NextRowWrites]_vars

SpecClear == InitDefault /\ [][NextClear]_vars

SpecTools == InitDefault /\ [][NextTools]_vars

SpecRegister == InitDefault /\ [][NextRegister]_vars

SpecCache == InitDefault /\ [][NextCache]_vars

SpecRegistry == InitDefault /\ [][NextRegistry]_vars

SpecMerge == InitDefault /\ [][NextMerge]_vars

SpecEmitTwo == InitDefault /\ [][NextEmitTwo]_vars

SpecComposeTwo == InitDefault /\ [][NextComposeTwo]_vars

SpecEnsureTwo == InitDefault /\ [][NextEnsureTwo]_vars

SpecShutdown == InitDefault /\ [][NextShutdown]_vars

SpecReads == InitDefault /\ [][NextReads]_vars

====
